---- MODULE Spec2Model ----
(***************************************************************************)
(* Model of the compare session of src/src/Compare.cpp: the marker history *)
(* (DeletedSectionsList), the registry of compared pairs (compareList),    *)
(* the command and notification handlers and the delayed actions.          *)
(*                                                                         *)
(* Lines are numbered from 0 as in the source; a document is the sequence  *)
(* of the marker bitsets of its lines, so line L is element L + 1.  A      *)
(* position in a document is abstracted to the line it lies on.            *)
(***************************************************************************)
EXTENDS Integers, Sequences, FiniteSets, TLC

\* ------------------------------------------------------------------ bounds
\* the longest document
MaxLines == 3
\* the deepest history stack
MaxSections == 2
\* the largest value of skipPush
MaxSkip == 2
\* the last value of the tick counter
MaxTick == 40
\* the most lines one edit adds or deletes, and the largest value of
\* linesAdded / linesDeleted
MaxCount == 2
\* the most lines one edit of a document that is re-compared as it changes
\* adds or deletes
MaxEditLines == 1
\* the number of edits the editor can undo: older edits are forgotten
MaxUndo == 2
\* the most pairs the registry holds: no new compare is begun beyond it
MaxPairs == 2
\* the most operations of the user in a session: menu commands, tabs shown,
\* moved, closed or saved, and edits of a document that is re-compared as it
\* changes (timers are not counted)
MaxSessionOps == 7
\* the last line of the two documents an alignment is applied to
MaxAlignLine == 2
\* the records of an alignment
MaxRecords == 3
\* the rows of padding an earlier alignment has left under a line
MaxStalePad == 1
\* how far below zero the guard counter is followed
MaxWrap == 2
\* the operations that lead a session with two files open in the main view to
\* an established pair: file 2 is shown, it is moved to the sub view, and it is
\* compared
PairSetupOps == 3
\* the operations with which the user has opened the files of a session that
\* starts with nothing compared
OpenOps == 2

\* ------------------------------------------------------- program constants
\* the replace-detection window of DeletedSectionsList::pop, in ms
ReplaceWindow == 40
\* one step of the tick counter, in ms
TickStep == 40

MAIN_VIEW == "MAIN"
SUB_VIEW == "SUB"
Views == {MAIN_VIEW, SUB_VIEW}

SC_PERFORMED_USER == "USER"
SC_PERFORMED_UNDO == "UNDO"
SC_PERFORMED_REDO == "REDO"
Actions == {SC_PERFORMED_USER, SC_PERFORMED_UNDO, SC_PERFORMED_REDO}

\* the marker bits the plugin sets on a line: a background (line) marker and
\* its margin symbol
MARKER_MASK_LINE == {"line"}
MARKER_MASK_ALL == {"line", "symbol"}
\* the bitsets a compare leaves on a line
MarkerValues == {{}, MARKER_MASK_ALL}

\* the buffers of the host; None is "no buffer"
None == 0
Buffers == 1 .. 3
\* the buffer a temp file is opened in
TempBuff == 4
AllBuffers == Buffers \cup {TempBuff}

VARIABLES
    tabs,               \* host: the tab order of each view
    active,             \* host: the buffer shown in each view (None: empty view)
    focus,              \* host: the current view
    marks,              \* host: per buffer, the marker bitset of each line
    tickCount,          \* host: GetTickCount()
    undoHistory,        \* host: the undo and redo stacks of the edited document
    storage,            \* host: the temp files that exist on disk
    Settings,           \* the user settings
    compareList,        \* the registry of compared pairs
    newCompare,         \* the first file of a compare that was set, or None
    compareMode,        \* NppSettings::compareMode
    notificationsLock,  \* the re-entrancy guard counter
    deletedSections,    \* per buffer, the marker history of its ComparedFile
    delayedAlignment,   \* the alignment slot
    delayedActivation,  \* the activation slot
    delayedClosure,     \* the batched-close slot
    delayedUpdate,      \* the update slot
    storedLocation,     \* whether a view location is stored
    goToFirst,          \* whether the next alignment jumps to the first diff
    pc,                 \* where compare() stands
    cmp,                \* the locals of the running compare()
    probe,              \* the last multi-line delete and whether its undo followed
    replScen,           \* progress of a line-replace and its revert
    skipScen,           \* progress of an untracked insert, a delete and its undo
    burst,              \* the edit notifications since the update slot was armed
    sessionOps,         \* the number of operations of the user in the session so far
    ended,              \* how the compare() that has just returned ended
    notified,           \* the notification that has just come in while a handler was running
    alignCase,          \* an alignment, the padding of the two views and the calls made
    minimized,          \* host: the window is minimized
    delayedMaximize     \* the slot of the delayed restore action

vars == <<tabs, active, focus, marks, tickCount, undoHistory, storage, Settings, compareList,
          newCompare, compareMode, notificationsLock, deletedSections,
          delayedAlignment, delayedActivation, delayedClosure, delayedUpdate,
          storedLocation, goToFirst, pc, cmp, probe, replScen, skipScen, burst,
          sessionOps, ended, notified, alignCase, minimized, delayedMaximize>>

\* ----------------------------------------------------------------- helpers
Min(a, b) == IF a < b THEN a ELSE b
Max(a, b) == IF a > b THEN a ELSE b

Range(s) == {s[i] : i \in 1 .. Len(s)}

\* index of x in the sequence s, 0 when absent
IndexOf(s, x) == IF \E i \in 1 .. Len(s) : s[i] = x
                 THEN CHOOSE i \in 1 .. Len(s) : s[i] = x
                 ELSE 0

RemoveAt(s, i) == SubSeq(s, 1, i - 1) \o SubSeq(s, i + 1, Len(s))

\* -------------------------------------------------------------- host views
getCurrentViewId == focus
getOtherViewIdOf(view) == IF view = MAIN_VIEW THEN SUB_VIEW ELSE MAIN_VIEW
getOtherViewId == getOtherViewIdOf(focus)
getCurrentBuffId == active[focus]

\* the number of lines of buffer b
LineCount(b) == Len(marks[b])

\* SCI_LINEFROMPOSITION: the line of a position; past the end, the last line
LineFromPosition(b, pos) == Max(0, Min(pos, LineCount(b) - 1))

\* SCI_MARKERGET: the marker bitset of a line; empty for a line that is not there
MarkerGet(m, line) == IF line + 1 \in 1 .. Len(m) THEN m[line + 1] ELSE {}

\* clearMarks(view, line): remove the plugin's markers from one line
clearMarksLine(m, line) ==
    [l \in 1 .. Len(m) |-> IF l = line + 1 THEN m[l] \ MARKER_MASK_ALL ELSE m[l]]

\* clearMarks(view, off, len): remove the plugin's markers from len lines
clearMarksRange(m, off, len) ==
    [l \in 1 .. Len(m) |->
        IF l - 1 >= off /\ l - 1 < off + len THEN m[l] \ MARKER_MASK_ALL ELSE m[l]]

\* ---------------------------------------------------------- marker history
EmptyHistory == [skipPush |-> 0, lastPushTimeMark |-> 0, sections |-> <<>>]

\* struct DeletedSection: the constructor
DeletedSection(action, line, len) ==
    [startLine |-> line,
     lineReplace |-> FALSE,
     restoreAction |-> IF action = SC_PERFORMED_UNDO THEN SC_PERFORMED_REDO
                       ELSE SC_PERFORMED_UNDO,
     markers |-> [i \in 1 .. len |-> {}]]

\* DeletedSectionsList::push that drops the whole skip counter
pushClearsSkip(h, m, currAction, startLine, endLine, now) ==
    [h |-> [h EXCEPT !.skipPush = 0], m |-> m]

\* DeletedSectionsList::push on the history h of a document with markers m;
\* the result is the new history and the new markers
push(h, m, currAction, startLine, endLine, now) ==
    IF endLine <= startLine THEN [h |-> h, m |-> m]
    ELSE IF h.skipPush # 0
    THEN [h |-> [h EXCEPT !.skipPush = @ - 1], m |-> m]
    ELSE IF /\ h.sections # <<>>
            /\ h.sections[Len(h.sections)].restoreAction = currAction
            /\ h.sections[Len(h.sections)].lineReplace
    THEN [h |-> h, m |-> m]
    ELSE LET len == endLine - startLine + 1
             \* the loop visits the lines that carry a line marker
             visited(line) == MarkerGet(m, line) \cap MARKER_MASK_LINE # {}
             delSection ==
                 [DeletedSection(currAction, startLine, len) EXCEPT
                    !.markers = [i \in 1 .. len |->
                        IF visited(startLine + i - 1)
                        THEN MarkerGet(m, startLine + i - 1) \cap MARKER_MASK_ALL
                        ELSE {}]]
             cleared ==
                 [l \in 1 .. Len(m) |->
                    IF /\ l - 1 >= startLine
                       /\ l - 1 <= endLine
                       /\ visited(l - 1)
                       /\ l - 1 # endLine
                    THEN m[l] \ MARKER_MASK_ALL
                    ELSE m[l]]
         IN  [h |-> [h EXCEPT !.sections = Append(@, delSection),
                              !.lastPushTimeMark = now],
              m |-> cleared]

\* the comparison of two DWORD tick counts; a tick below zero stands for the
\* count 2^32 + tick, one of the last before GetTickCount wraps to zero
unsignedLess(a, b) ==
    \/ a >= 0 /\ b < 0
    \/ (a >= 0 <=> b >= 0) /\ a < b

\* DeletedSectionsList::pop that removes the top record whatever the call
popAlways(h, m, currAction, startLine, now) ==
    [h |-> [h EXCEPT !.sections = IF @ = <<>> THEN @ ELSE SubSeq(@, 1, Len(@) - 1)],
     m |-> m]

\* DeletedSectionsList::pop
pop(h, m, currAction, startLine, now) ==
    IF h.sections = <<>>
    THEN [h |-> [h EXCEPT !.skipPush = @ + 1], m |-> m]
    ELSE LET n == Len(h.sections)
             lastSec == h.sections[n]
         IN  IF lastSec.restoreAction # currAction
             THEN IF unsignedLess(now, h.lastPushTimeMark + ReplaceWindow)
                  THEN [h |-> [h EXCEPT !.sections[n].lineReplace = TRUE], m |-> m]
                  ELSE [h |-> [h EXCEPT !.skipPush = @ + 1], m |-> m]
             ELSE IF lastSec.startLine # startLine
             THEN [h |-> h, m |-> m]
             ELSE LET linesCount == Len(lastSec.markers)
                      restored ==
                          [l \in 1 .. Len(m) |->
                             IF l - 1 >= startLine /\ l - 1 < startLine + linesCount
                             THEN (m[l] \ MARKER_MASK_ALL)
                                      \cup lastSec.markers[l - startLine]
                             ELSE m[l]]
                  IN  [h |-> [h EXCEPT !.sections = SubSeq(@, 1, n - 1)],
                       m |-> restored]

\* DeletedSectionsList::clear
clearHistory == EmptyHistory

\* ------------------------------------------------------------ host commands
\* The host (editor) state as one record, so that a handler's sequence of host
\* commands is a composition of the operators below.
Host == [tabs |-> tabs, active |-> active, focus |-> focus, marks |-> marks,
         storage |-> storage]

SetHost(h) ==
    /\ tabs' = h.tabs
    /\ active' = h.active
    /\ focus' = h.focus
    /\ marks' = h.marks
    /\ storage' = h.storage

NoView == "NONE"

hOther(view) == IF view = MAIN_VIEW THEN SUB_VIEW ELSE MAIN_VIEW

\* isOpen: the buffer is open in one of the views
hIsOpen(h, b) == \E v \in Views : b \in Range(h.tabs[v])

\* viewIdFromBuffId
hViewOf(h, b) ==
    IF b \in Range(h.tabs[MAIN_VIEW]) THEN MAIN_VIEW
    ELSE IF b \in Range(h.tabs[SUB_VIEW]) THEN SUB_VIEW
    ELSE NoView

\* posFromBuffId: the tab index of the buffer in its view, from 0
hPos(h, b) == IF hIsOpen(h, b) THEN IndexOf(h.tabs[hViewOf(h, b)], b) - 1 ELSE 0 - 1

hCurrent(h) == h.active[h.focus]

\* getDocId: the document shown in a view; a buffer keeps its document
hDocId(h, view) == h.active[view]

\* isSingleView: one of the two views shows nothing
hIsSingleView(h) == h.tabs[MAIN_VIEW] = <<>> \/ h.tabs[SUB_VIEW] = <<>>

\* getNumberOfFiles(view)
hNumberOfFiles(h, view) == Len(h.tabs[view])

\* activateBufferID: show the buffer in its view and focus that view
hActivate(h, b) ==
    IF hIsOpen(h, b)
    THEN [h EXCEPT !.active[hViewOf(h, b)] = b, !.focus = hViewOf(h, b)]
    ELSE h

\* the buffer a view shows after the tab at index i (from 1) has gone
hNeighbour(rest, i) ==
    IF rest = <<>> THEN None
    ELSE IF i <= Len(rest) THEN rest[i] ELSE rest[Len(rest)]

\* IDM_VIEW_GOTO_ANOTHER_VIEW: move the current buffer to the end of the other
\* view's tabs and focus it there; nothing when it is the only buffer open
hMoveToOtherView(h) ==
    LET b == hCurrent(h)
        v == h.focus
        o == hOther(v)
        i == IndexOf(h.tabs[v], b)
        rest == RemoveAt(h.tabs[v], i)
    IN  IF b = None \/ (Len(h.tabs[v]) = 1 /\ h.tabs[o] = <<>>) THEN h
        ELSE [h EXCEPT !.tabs[v] = rest,
                       !.tabs[o] = Append(@, b),
                       !.active[v] = hNeighbour(rest, i),
                       !.active[o] = b,
                       !.focus = o]

\* IDM_FILE_CLOSE: close the current buffer; its view shows a neighbour, and
\* the focus moves to the other view when the view is left empty
hCloseCurrent(h) ==
    LET b == hCurrent(h)
        v == h.focus
        o == hOther(v)
        i == IndexOf(h.tabs[v], b)
        rest == RemoveAt(h.tabs[v], i)
    IN  IF b = None THEN h
        ELSE [h EXCEPT !.tabs[v] = rest,
                       !.active[v] = hNeighbour(rest, i),
                       !.focus = IF rest = <<>> /\ h.tabs[o] # <<>> THEN o ELSE v,
                       !.marks[b] = <<>>]

\* IDM_VIEW_TAB_MOVEBACKWARD: swap the current tab with the one before it
hTabMoveBackward(h) ==
    LET b == hCurrent(h)
        v == h.focus
        i == IndexOf(h.tabs[v], b)
    IN  IF b = None \/ i <= 1 THEN h
        ELSE [h EXCEPT !.tabs[v] = [k \in 1 .. Len(h.tabs[v]) |->
                                      IF k = i - 1 THEN b
                                      ELSE IF k = i THEN h.tabs[v][i - 1]
                                      ELSE h.tabs[v][k]]]

RECURSIVE hTabMoveBackwardTimes(_, _)
hTabMoveBackwardTimes(h, n) ==
    IF n <= 0 THEN h ELSE hTabMoveBackwardTimes(hTabMoveBackward(h), n - 1)

\* IDM_VIEW_TAB_PREV / IDM_VIEW_TAB_NEXT: show the previous / next tab of the
\* current view, wrapping around
hTabSwitch(h, toPrev) ==
    LET v == h.focus
        n == Len(h.tabs[v])
        i == IndexOf(h.tabs[v], hCurrent(h))
        j == IF toPrev THEN (IF i = 1 THEN n ELSE i - 1)
             ELSE (IF i = n THEN 1 ELSE i + 1)
    IN  IF n = 0 THEN h ELSE [h EXCEPT !.active[v] = h.tabs[v][j]]

\* IDM_VIEW_SWITCHTO_OTHER_VIEW: focus the other view when it shows a buffer
hSwitchToOtherView(h) ==
    IF h.tabs[hOther(h.focus)] = <<>> THEN h ELSE [h EXCEPT !.focus = hOther(h.focus)]

\* clearWindow(view): remove every marker of the document the view shows
hClearWindow(h, view) ==
    IF view \in Views /\ h.active[view] # None
    THEN [h EXCEPT !.marks[h.active[view]] =
                        [l \in 1 .. Len(@) |-> @[l] \ MARKER_MASK_ALL]]
    ELSE h

\* clearWindow(getCurrentViewId())
hClearFocused(h) == hClearWindow(h, h.focus)

\* clearMarksAndBlanks(view, off, len) / clearMarks(view, off, len) on the
\* document the view shows
hClearMarks(h, view, off, len) ==
    IF view \in Views /\ h.active[view] # None
    THEN [h EXCEPT !.marks[h.active[view]] = clearMarksRange(@, off, len)]
    ELSE h

\* --------------------------------------------------------- compared entities
NO_TEMP == "NO_TEMP"
LAST_SAVED_TEMP == "LAST_SAVED_TEMP"

\* ComparedFile::initFromCurrent followed by updateFromCurrent
initFromCurrent(h, currFileIsNew, temp) ==
    [buffId |-> hCurrent(h),
     isNew |-> currFileIsNew,
     isTemp |-> temp,
     originalViewId |-> h.focus,
     compareViewId |-> h.focus,
     originalPos |-> hPos(h, hCurrent(h)),
     sciDoc |-> hDocId(h, h.focus)]

\* ComparedFile::updateFromCurrent
updateFromCurrent(h, f) == [f EXCEPT !.sciDoc = hDocId(h, h.focus)]

\* ComparedFile::updateView
updateView(f) ==
    [f EXCEPT !.compareViewId =
        IF f.isNew
        THEN (IF Settings.OldFileViewId = MAIN_VIEW THEN SUB_VIEW ELSE MAIN_VIEW)
        ELSE Settings.OldFileViewId]

\* activateBufferID(buffId) followed by clearWindow(getCurrentViewId())
hActivateAndClear(h, b) == hClearFocused(hActivate(h, b))

\* one command of a ComparedFile to the host
hCommand(h, f, c) ==
    CASE c = "activateBufferID" -> hActivate(h, f.buffId)
      [] c = "clearWindow" -> hClearFocused(h)
      [] c = "IDM_FILE_CLOSE" -> hCloseCurrent(h)
      [] c = "DeleteFile" -> [h EXCEPT !.storage = @ \ {f.buffId}]
      [] c = "IDM_VIEW_GOTO_ANOTHER_VIEW" -> hMoveToOtherView(h)
      [] c = "IDM_VIEW_TAB_MOVEBACKWARD" -> hTabMoveBackward(h)
      [] OTHER -> h

\* the commands of a ComparedFile to the host, in their order
RECURSIVE hCommands(_, _, _)
hCommands(h, f, cs) ==
    IF cs = <<>> THEN h ELSE hCommands(hCommand(h, f, Head(cs)), f, Tail(cs))

\* ComparedFile::onBeforeClose: its commands
onBeforeCloseCommands(f) ==
    <<"activateBufferID", "clearWindow">>
        \o (IF f.isTemp # NO_TEMP THEN <<"SCI_SETSAVEPOINT">> ELSE <<>>)

\* ComparedFile::onClose without DeleteFile
onCloseCommandsNone(f) == <<>>

\* ComparedFile::onClose: its commands; a temp file is deleted from storage
onCloseCommands(f) ==
    IF f.isTemp # NO_TEMP THEN <<"SetFileAttributes", "DeleteFile">> ELSE <<>>

\* ComparedFile::close with the close command issued first
closeCommandsCloseFirst(f) ==
    <<"IDM_FILE_CLOSE">> \o onBeforeCloseCommands(f) \o onCloseCommands(f)

\* ComparedFile::close: its commands
closeCommands(f) ==
    onBeforeCloseCommands(f) \o <<"IDM_FILE_CLOSE">> \o onCloseCommands(f)

\* ComparedFile::onBeforeClose
fileOnBeforeClose(h, f) == hCommands(h, f, onBeforeCloseCommands(f))

\* ComparedFile::onClose
fileOnClose(h, f) == hCommands(h, f, onCloseCommands(f))

\* ComparedFile::close
fileClose(h, f) == hCommands(h, f, closeCommands(f))

\* a way back that stops one tab short of the original position
restoreTabPosShort(h, f) ==
    IF ~hIsOpen(h, f.buffId) THEN h
    ELSE IF f.originalPos >= hPos(h, f.buffId) THEN h
    ELSE hTabMoveBackwardTimes(h, hPos(h, f.buffId) - f.originalPos - 1)

\* ComparedFile::restore, after the move to the other view: the tab goes back
\* towards its original position
restoreTabPos(h, f) ==
    IF ~hIsOpen(h, f.buffId) THEN h
    ELSE IF f.originalPos >= hPos(h, f.buffId) THEN h
    ELSE hTabMoveBackwardTimes(h, hPos(h, f.buffId) - f.originalPos)

\* ComparedFile::restore, after the window is cleared
restoreView(h, f) ==
    IF hViewOf(h, f.buffId) # f.originalViewId
    THEN restoreTabPos(hMoveToOtherView(h), f)
    ELSE h

\* ComparedFile::restore
fileRestore(h, f) ==
    IF f.isTemp # NO_TEMP THEN fileClose(h, f)
    ELSE restoreView(hActivateAndClear(h, f.buffId), f)

\* ComparedFile::restore: the number of turns of its loop, after the move to
\* the other view
restoreMoves(h, f) ==
    IF ~hIsOpen(h, f.buffId) THEN 0
    ELSE IF f.originalPos >= hPos(h, f.buffId) THEN 0
    ELSE hPos(h, f.buffId) - f.originalPos

\* ComparedFile::restore: its commands to the host, in their order
restoreCommands(h, f) ==
    IF f.isTemp # NO_TEMP THEN closeCommands(f)
    ELSE <<"activateBufferID", "clearWindow">>
            \o (IF hViewOf(hActivateAndClear(h, f.buffId), f.buffId) # f.originalViewId
                THEN <<"IDM_VIEW_GOTO_ANOTHER_VIEW">>
                        \o [i \in 1 .. restoreMoves(
                                hMoveToOtherView(hActivateAndClear(h, f.buffId)), f)
                                |-> "IDM_VIEW_TAB_MOVEBACKWARD"]
                ELSE <<>>)

\* ComparedPair accessors
getFileByViewId(h, pair, viewId) ==
    IF hViewOf(h, pair.file[1].buffId) = viewId THEN pair.file[1] ELSE pair.file[2]
getFileByBuffId(pair, buffId) ==
    IF pair.file[1].buffId = buffId THEN pair.file[1] ELSE pair.file[2]
getOtherFileByBuffId(pair, buffId) ==
    IF pair.file[1].buffId = buffId THEN pair.file[2] ELSE pair.file[1]
\* the index (1 or 2) of the old and of the new file
oldIdx(pair) == IF pair.file[1].isNew THEN 2 ELSE 1
newIdx(pair) == IF pair.file[1].isNew THEN 1 ELSE 2
getOldFile(pair) == pair.file[oldIdx(pair)]
getNewFile(pair) == pair.file[newIdx(pair)]

\* ComparedPair::positionFiles works on the host and on the pair
HostAndPair(h, pair) == [h |-> h, pair |-> pair]

\* ComparedPair::positionFiles: the value it assigns to relativePos
relativePosOf(oldFile, newFile) ==
    IF oldFile.originalViewId # newFile.originalViewId THEN 0
    ELSE IF oldFile.originalViewId = oldFile.compareViewId
    THEN newFile.originalPos - oldFile.originalPos
    ELSE oldFile.originalPos - newFile.originalPos

\* ComparedPair::positionFiles: updateView of both files, and relativePos
viewsUpdated(pair) ==
    [pair EXCEPT !.file[1] = updateView(@),
                 !.file[2] = updateView(@),
                 !.relativePos = relativePosOf(updateView(getOldFile(pair)),
                                               updateView(getNewFile(pair)))]

\* ComparedPair::positionFiles: file i is moved to its compare view
moveToCompareView(hp, i) ==
    IF hViewOf(hp.h, hp.pair.file[i].buffId) # hp.pair.file[i].compareViewId
    THEN [h |-> hMoveToOtherView(hActivate(hp.h, hp.pair.file[i].buffId)),
          pair |-> [hp.pair EXCEPT !.file[i] =
                        updateFromCurrent(
                            hMoveToOtherView(hActivate(hp.h, hp.pair.file[i].buffId)),
                            @)]]
    ELSE hp

\* ComparedPair::positionFiles: file i is shown in its compare view
showInCompareView(hp, i) ==
    IF hp.pair.file[i].sciDoc # hDocId(hp.h, hp.pair.file[i].compareViewId)
    THEN [hp EXCEPT !.h = hActivate(@, hp.pair.file[i].buffId)]
    ELSE hp

\* ComparedPair::positionFiles: the new host state and the updated pair
positionFiles(h, pair) ==
    [showInCompareView(
        showInCompareView(
            moveToCompareView(
                moveToCompareView(HostAndPair(h, viewsUpdated(pair)), oldIdx(pair)),
                newIdx(pair)),
            oldIdx(pair)),
        newIdx(pair))
     EXCEPT !.h = hActivate(@, hCurrent(h))]

\* ComparedPair::restoreFiles: the index of the file that is in its original
\* view and is not moved
biasIdx(h, pair) ==
    IF hViewOf(h, pair.file[1].buffId) = pair.file[1].originalViewId THEN 1 ELSE 2

\* ComparedPair::restoreFiles: the original position of the moved file is
\* adjusted to the position newPos of the bias file
adjustMoved(pair, bias, newPos) ==
    IF /\ pair.relativePos # 0
       /\ pair.file[bias].originalPos > pair.file[3 - bias].originalPos
       /\ newPos # pair.file[bias].originalPos
       /\ newPos < pair.file[3 - bias].originalPos
    THEN [pair EXCEPT !.file[3 - bias].originalPos = newPos]
    ELSE pair

\* ComparedPair::restoreFiles: the two calls of restore
restoreBoth(h, pair, currentBuffId) ==
    IF currentBuffId = None
    THEN fileRestore(fileRestore(h, pair.file[1]), pair.file[2])
    ELSE fileRestore(fileRestore(h, getOtherFileByBuffId(pair, currentBuffId)),
                     getFileByBuffId(pair, currentBuffId))

\* ComparedPair::restoreFiles(currentBuffId); None stands for the default -1
restoreFiles(h, pair, currentBuffId) ==
    restoreBoth(h,
                adjustMoved(pair, biasIdx(h, pair),
                            hPos(h, pair.file[biasIdx(h, pair)].buffId)),
                currentBuffId)

\* ------------------------------------------------------------- the registry
\* getCompare: the index of the first pair that holds the buffer, 0 for end()
getCompare(list, buffId) ==
    IF \E i \in 1 .. Len(list) :
          list[i].file[1].buffId = buffId \/ list[i].file[2].buffId = buffId
    THEN CHOOSE i \in 1 .. Len(list) :
          /\ list[i].file[1].buffId = buffId \/ list[i].file[2].buffId = buffId
          /\ \A j \in 1 .. i - 1 :
                list[j].file[1].buffId # buffId /\ list[j].file[2].buffId # buffId
    ELSE 0

\* getCompareBySciDoc
getCompareBySciDoc(list, sciDoc) ==
    IF \E i \in 1 .. Len(list) :
          list[i].file[1].sciDoc = sciDoc \/ list[i].file[2].sciDoc = sciDoc
    THEN CHOOSE i \in 1 .. Len(list) :
          /\ list[i].file[1].sciDoc = sciDoc \/ list[i].file[2].sciDoc = sciDoc
          /\ \A j \in 1 .. i - 1 :
                list[j].file[1].sciDoc # sciDoc /\ list[j].file[2].sciDoc # sciDoc
    ELSE 0

\* isFileCompared(view)
isFileCompared(h, list, view) == getCompareBySciDoc(list, hDocId(h, view)) # 0


\* ------------------------------------------------------- the program state
\* The state a handler works on, as one record: a handler is an operator from
\* state to state, so that a handler that calls another is a composition.
\* "calls" lists the requests the running handler has made to compareViews.
NoCmp == [sel |-> FALSE, recompare |-> FALSE, doubleView |-> FALSE,
          currentBuffId |-> None, idx |-> 0]

State ==
    [h |-> Host,
     list |-> compareList,
     nc |-> newCompare,
     mode |-> compareMode,
     lock |-> notificationsLock,
     ds |-> deletedSections,
     align |-> delayedAlignment,
     activation |-> delayedActivation,
     closure |-> delayedClosure,
     update |-> delayedUpdate,
     stored |-> storedLocation,
     goToFirst |-> goToFirst,
     pc |-> pc,
     cmp |-> cmp,
     calls |-> <<>>]

SetState(st) ==
    /\ SetHost(st.h)
    /\ compareList' = st.list
    /\ newCompare' = st.nc
    /\ compareMode' = st.mode
    /\ notificationsLock' = st.lock
    /\ deletedSections' = st.ds
    /\ delayedAlignment' = st.align
    /\ delayedActivation' = st.activation
    /\ delayedClosure' = st.closure
    /\ delayedUpdate' = st.update
    /\ storedLocation' = st.stored
    /\ goToFirst' = st.goToFirst
    /\ pc' = st.pc
    /\ cmp' = st.cmp

\* DelayedWork::post and DelayedWork::cancel act on the pending flag of a slot
\* and on nothing else

\* onBufferActivated that leaves the mode as it is when the buffer is in no pair
onBufferActivatedKeepsMode(st, buffId) ==
    LET st1 == [st EXCEPT !.align = FALSE, !.activation.pending = FALSE]
    IN  IF getCompare(st1.list, buffId) = 0
        THEN st1
        ELSE [st1 EXCEPT !.activation = [pending |-> TRUE, buffId |-> buffId]]

\* onBufferActivated
onBufferActivated(st, buffId) ==
    LET st1 == [st EXCEPT !.align = FALSE, !.activation.pending = FALSE]
    IN  IF getCompare(st1.list, buffId) = 0
        THEN [st1 EXCEPT !.mode = FALSE]
        ELSE [st1 EXCEPT !.activation = [pending |-> TRUE, buffId |-> buffId]]

\* erase one pair of the registry; its two marker histories go with it
erasePair(st, idx) ==
    [st EXCEPT !.list = RemoveAt(@, idx),
               !.ds = [b \in AllBuffers |->
                          IF b \in {st.list[idx].file[1].buffId,
                                    st.list[idx].file[2].buffId}
                          THEN EmptyHistory ELSE @[b]]]

\* ScopedIncrementer on notificationsLock: construction and destruction
lockInc(st) == [st EXCEPT !.lock = @ + 1]
lockDec(st) == [st EXCEPT !.lock = @ - 1]

\* onBufferActivated(getCurrentBuffId())
currentActivated(st) == onBufferActivated(st, hCurrent(st.h))

\* clearComparePair: cmpPair->restoreFiles(buffId)
pairRestored(st, idx, buffId) ==
    [st EXCEPT !.h = restoreFiles(@, st.list[idx], buffId)]

\* clearComparePair
clearComparePair(st, buffId) ==
    IF getCompare(st.list, buffId) = 0 THEN st
    ELSE lockDec(currentActivated(
            erasePair(pairRestored(lockInc(st), getCompare(st.list, buffId), buffId),
                      getCompare(st.list, buffId))))

\* closeComparePair: cmpPair->getFileByViewId(view).close()
fileOfViewClosed(st, idx, view) ==
    [st EXCEPT !.h = fileClose(@, getFileByViewId(st.h, st.list[idx], view))]

\* closeComparePair
closeComparePair(st, idx) ==
    lockDec(currentActivated(
        erasePair(fileOfViewClosed(fileOfViewClosed(lockInc(st), idx, SUB_VIEW),
                                   idx, MAIN_VIEW),
                  idx)))

\* NewCompare::NewCompare: the pair under construction, its first file set
NewCompare(h, currFileIsNew) ==
    <<[file0 |-> initFromCurrent(h, currFileIsNew, NO_TEMP), temp1 |-> NO_TEMP]>>

\* setFirst: the result and the state with the new value of newCompare
setFirst(st, currFileIsNew) ==
    IF isFileCompared(st.h, st.list, st.h.focus)
    THEN [ok |-> FALSE, st |-> st]
    ELSE [ok |-> TRUE, st |-> [st EXCEPT !.nc = NewCompare(st.h, currFileIsNew)]]

\* initNewCompare that gives the second file the role of the first
secondFileSameRole(st) ==
    [ok |-> TRUE, st |-> st,
     file1 |-> initFromCurrent(st.h, st.nc[1].file0.isNew, st.nc[1].temp1)]

\* initNewCompare: the second file is taken from the current buffer
secondFile(st) ==
    [ok |-> TRUE, st |-> st,
     file1 |-> initFromCurrent(st.h, ~st.nc[1].file0.isNew, st.nc[1].temp1)]

\* initNewCompare: it returns false
initFailed(st) == [ok |-> FALSE, st |-> st, file1 |-> <<>>]

\* initNewCompare when the first file is not set, after setFirst(isNew)
initSecond(first, singleView) ==
    IF ~first.ok THEN initFailed(first.st)
    ELSE IF singleView
    THEN IF hNumberOfFiles(first.st.h, first.st.h.focus) < 2
         THEN initFailed(first.st)
         ELSE secondFile([first.st EXCEPT !.h = hTabSwitch(@, Settings.CompareToPrev)])
    ELSE IF isFileCompared(first.st.h, first.st.list, hOther(first.st.h.focus))
         THEN initFailed(first.st)
         ELSE secondFile([first.st EXCEPT !.h = hSwitchToOtherView(@)])

\* initNewCompare: the result, and the state with both files of newCompare set
\* (file1 is the second file)
initNewCompare(st) ==
    IF st.nc # <<>> /\ st.nc[1].file0.buffId # hCurrent(st.h)
    THEN secondFile(st)
    ELSE initSecond(setFirst(st, IF hIsSingleView(st.h) THEN TRUE
                                 ELSE st.h.focus # Settings.OldFileViewId),
                    hIsSingleView(st.h))

\* the values the unassigned fields of a new ComparedPair may hold
RelativePosGarbage == {0 - 1, 0, 1}
Garbage == [relativePos : RelativePosGarbage, isFullCompare : BOOLEAN]

\* addComparePair: the pair of newCompare enters the registry; its relativePos
\* and isFullCompare have not been assigned yet.  "positioned" and "compared"
\* record that positionFiles has assigned relativePos and that a compare of the
\* pair has ended in a mismatch.
addComparePair(st, file1, garbage) ==
    [st EXCEPT !.list = Append(@, [file |-> <<st.nc[1].file0, file1>>,
                                   relativePos |-> garbage.relativePos,
                                   positioned |-> FALSE,
                                   isFullCompare |-> garbage.isFullCompare,
                                   compared |-> FALSE,
                                   alignmentInfo |-> <<>>]),
               !.nc = <<>>,
               !.ds = [b \in AllBuffers |->
                          IF b \in {st.nc[1].file0.buffId, file1.buffId}
                          THEN EmptyHistory ELSE @[b]]]

\* a clear that wipes the markers and leaves the marker history alone
fileClearKeepsHistory(st, f) ==
    [st EXCEPT !.h = hClearWindow(@, hViewOf(@, f.buffId))]

\* ComparedFile::clear of one file of a pair
fileClear(st, f) ==
    [st EXCEPT !.h = hClearWindow(@, hViewOf(@, f.buffId)),
               !.ds[f.buffId] = clearHistory]

\* ComparedFile::clear(section) of one file of a pair
fileClearSection(st, f, section) ==
    [st EXCEPT !.h = hClearMarks(@, hViewOf(@, f.buffId), section.off, section.len),
               !.ds[f.buffId] = clearHistory]

\* compare() has returned: its ScopedIncrementer is released
cmpReturn(st) == [st EXCEPT !.lock = @ - 1, !.pc = "idle", !.cmp = NoCmp]

\* the locals of compare()
Locals(st, selectionCompare, idx) ==
    [sel |-> selectionCompare, recompare |-> getCompare(st.list, hCurrent(st.h)) # 0,
     doubleView |-> ~hIsSingleView(st.h), currentBuffId |-> hCurrent(st.h),
     idx |-> idx]

\* compare(): the branch of a pair that is compared again
compareAgain(st, locals, selectionsValid) ==
    IF locals.sel /\ ~selectionsValid THEN cmpReturn(st)
    ELSE [fileClear(fileClear(st, getOldFile(st.list[locals.idx])),
                    getNewFile(st.list[locals.idx]))
          EXCEPT !.stored = /\ st.list[locals.idx].isFullCompare
                            /\ ~Settings.GotoFirstDiff
                            /\ ~locals.sel,
                 !.pc = "diff",
                 !.cmp = locals]

\* compare(): the new pair is in the registry (it is the last one)
compareAdded(st, locals) ==
    IF getOldFile(st.list[Len(st.list)]).isTemp # NO_TEMP
    THEN [st EXCEPT !.h = hActivate(@, getNewFile(st.list[Len(st.list)]).buffId),
                    !.cmp = [locals EXCEPT !.idx = Len(st.list)],
                    !.pc = IF Settings.EncodingsCheck THEN "encoding" ELSE "diff"]
    ELSE [st EXCEPT !.h = hActivate(@, locals.currentBuffId),
                    !.cmp = [locals EXCEPT !.idx = Len(st.list)],
                    !.pc = IF locals.sel THEN "selection"
                           ELSE IF Settings.EncodingsCheck THEN "encoding"
                           ELSE "diff"]

\* compare(): the branch of a new pair, after initNewCompare
compareNew(init, locals, garbage) ==
    IF ~init.ok THEN cmpReturn([init.st EXCEPT !.nc = <<>>])
    ELSE compareAdded(addComparePair(init.st, init.file1, garbage), locals)

\* compare(), after its ScopedIncrementer and locals are set up
compareBody(st, locals, selectionsValid, garbage) ==
    IF locals.recompare
    THEN compareAgain([st EXCEPT !.nc = <<>>], locals, selectionsValid)
    ELSE compareNew(initNewCompare(st), locals, garbage)

\* compare(): from its entry to the first question it asks the user or the diff
compareBegin(st, selectionCompare, selectionsValid, garbage) ==
    compareBody([st EXCEPT !.lock = @ + 1, !.stored = FALSE, !.goToFirst = FALSE],
                Locals(st, selectionCompare, getCompare(st.list, hCurrent(st.h))),
                selectionsValid, garbage)

\* compare(): the answer of areSelectionsValid for a new pair
compareSelection(st, valid) ==
    IF ~valid
    THEN cmpReturn([st EXCEPT !.list = RemoveAt(@, Len(@))])
    ELSE [st EXCEPT !.pc = IF Settings.EncodingsCheck THEN "encoding" ELSE "diff"]

\* compare(): the answer of isEncodingOK for a new pair
compareEncoding(st, ok) ==
    IF ~ok THEN cmpReturn(clearComparePair(st, hCurrent(st.h)))
    ELSE [st EXCEPT !.pc = "diff"]


\* --------------------------------------------------------------- the diff
MISMATCH == "COMPARE_MISMATCH"
MATCH == "COMPARE_MATCH"
COMPARE_ERROR == "COMPARE_ERROR"
CompareResults == {MISMATCH, MATCH, COMPARE_ERROR}

\* the lines the diff may report as different: the first line of each section,
\* or every line of it
DiffPatterns == {"first", "all"}

\* the lines of a view's document a section covers; a length of 0 is the
\* whole document from the offset on
secLines(h, view, sec) ==
    LET n == IF h.active[view] = None THEN 0 ELSE Len(h.marks[h.active[view]])
    IN  {l \in 0 .. n - 1 : l >= sec.off /\ (sec.len = 0 \/ l < sec.off + sec.len)}

\* compareViews: the markers the diff sets in the two views on a mismatch
compareViewsMarks(h, mainSec, subSec, pattern) ==
    LET sec(view) == IF view = MAIN_VIEW THEN mainSec ELSE subSec
        diff(view) == IF pattern = "first"
                      THEN secLines(h, view, sec(view)) \cap {sec(view).off}
                      ELSE secLines(h, view, sec(view))
        viewOfBuff(b) == IF h.active[MAIN_VIEW] = b THEN MAIN_VIEW ELSE SUB_VIEW
    IN  [h EXCEPT !.marks = [b \in AllBuffers |->
            IF b \in {h.active[MAIN_VIEW], h.active[SUB_VIEW]}
            THEN [l \in 1 .. Len(h.marks[b]) |->
                    IF l - 1 \in diff(viewOfBuff(b))
                    THEN h.marks[b][l] \cup MARKER_MASK_ALL
                    ELSE h.marks[b][l]]
            ELSE h.marks[b]]]

\* compareViews: the alignment the diff reports on a mismatch
compareViewsAlignment(mainSec, subSec) ==
    <<[main |-> [line |-> mainSec.off, diffMask |-> MARKER_MASK_ALL],
       sub |-> [line |-> subSec.off, diffMask |-> MARKER_MASK_ALL]]>>

\* one request to compareViews
DiffCall(kind, mainSec, subSec) == [kind |-> kind, main |-> mainSec, sub |-> subSec]

\* the section { 0, 0 }: the whole document
Whole == [off |-> 0, len |-> 0]

\* runCompare: positionFiles has placed the files, and compareViews is asked
\* for a diff of the two views
runCompare(st, idx, placed) ==
    [st EXCEPT !.h = placed.h,
               !.list[idx] = [placed.pair EXCEPT !.positioned = TRUE],
               !.calls = Append(@, DiffCall(IF st.cmp.sel THEN "selection" ELSE "full",
                                            Whole, Whole))]

\* compare(), case COMPARE_MISMATCH
compareMismatch(st, idx, pattern) ==
    [[st EXCEPT !.h = compareViewsMarks(@, Whole, Whole, pattern),
                !.list[idx].isFullCompare = ~st.cmp.sel,
                !.list[idx].compared = TRUE,
                !.list[idx].alignmentInfo = compareViewsAlignment(Whole, Whole),
                !.mode = TRUE]
     EXCEPT !.h = IF st.stored \/ st.cmp.doubleView THEN @
                  ELSE hActivate(@, getNewFile(st.list[idx]).buffId),
            !.goToFirst = IF st.stored THEN @ ELSE TRUE]

\* compare(), case COMPARE_MATCH: the user is asked whether the compared files
\* are to be closed, and answers yes (closeOnMatch)
closeAccepted(st, idx, result, closeOnMatch) ==
    /\ result = MATCH
    /\ getOldFile(st.list[idx]).isTemp = NO_TEMP
    /\ Settings.PromptToCloseOnMatch
    /\ closeOnMatch

\* compare(), case COMPARE_MATCH and the default case
compareNoDiff(st, idx, result, closeOnMatch) ==
    IF closeAccepted(st, idx, result, closeOnMatch)
    THEN closeComparePair(st, idx)
    ELSE clearComparePair(st, hCurrent(st.h))

\* compare(): the switch on the result of runCompare, to the return
compareResult(st, idx, result, pattern, closeOnMatch) ==
    IF result = MISMATCH THEN cmpReturn(compareMismatch(st, idx, pattern))
    ELSE cmpReturn([compareNoDiff(st, idx, result, closeOnMatch) EXCEPT !.stored = FALSE])

\* compare(): runCompare and the switch on its result
compareDiff(st, result, pattern, closeOnMatch) ==
    compareResult(runCompare(st, st.cmp.idx, positionFiles(st.h, st.list[st.cmp.idx])),
                  st.cmp.idx, result, pattern, closeOnMatch)

\* ----------------------------------------------------- the delayed actions
\* getPrevUnmarkedLine: walking back from startLine, the nearest line that
\* carries no marker of the mask (line 0 when there is none)
getPrevUnmarkedLine(m, startLine) ==
    LET stops == {l \in 0 .. startLine :
                    l = 0 \/ MarkerGet(m, l) \cap MARKER_MASK_LINE = {}}
    IN  IF startLine <= 0 THEN startLine
        ELSE CHOOSE l \in stops : \A k \in stops : k <= l

\* getNextUnmarkedLine: walking on from startLine, the nearest line that
\* carries no marker of the mask (the last line when there is none)
getNextUnmarkedLine(m, startLine) ==
    LET endLine == Len(m) - 1
        stops == {l \in startLine .. endLine :
                    l = endLine \/ MarkerGet(m, l) \cap MARKER_MASK_LINE = {}}
    IN  IF startLine >= endLine THEN startLine
        ELSE CHOOSE l \in stops : \A k \in stops : l <= k

\* the markers of the document a view shows
viewMarks(h, view) == IF h.active[view] = None THEN <<>> ELSE h.marks[h.active[view]]

\* DelayedUpdate::operator(): startLine, the line of changePos in the current
\* view
changeLine(h, changePos) ==
    IF hCurrent(h) = None THEN 0
    ELSE Max(0, Min(changePos, Len(h.marks[hCurrent(h)]) - 1))

\* DelayedUpdate::operator(): the section of the view the change is in, after
\* the statements up to the computation of endLine.  Both references
\* changeViewSec and otherViewSec are bound to this section, as in the source:
\* off is reduced twice, and len grows by both counters.
widened(startLine, startOff, linesAdded, linesDeleted) ==
    [off |-> (startLine - startOff) - startOff,
     len |-> (1 + (startOff + linesAdded)) + (startOff + linesDeleted)]

\* DelayedUpdate::operator(): endOff is added through both references
extended(sec, endOff) == [sec EXCEPT !.len = (@ + endOff) + endOff]

\* DelayedUpdate::operator(): endOff for the section both references share
endOffOf(h, endLine) ==
    getNextUnmarkedLine(viewMarks(h, hOther(h.focus)), endLine) - endLine

\* DelayedUpdate::operator(): the sections mainViewSec and subViewSec
sectionsOf(changeView, changed, untouched, startLine) ==
    [main |-> IF changeView = MAIN_VIEW THEN changed ELSE untouched,
     sub |-> IF changeView = MAIN_VIEW THEN untouched ELSE changed,
     startLine |-> startLine]

\* DelayedUpdate::operator(): the sections when lines were added or deleted
adjusted(h, sec, startLine) ==
    sectionsOf(h.focus, extended(sec, endOffOf(h, sec.off + sec.len - 1)),
               [off |-> startLine, len |-> 1], startLine)

\* DelayedUpdate::operator(): the two sections of the re-diff at startLine
sectionsAt(h, startLine, linesAdded, linesDeleted) ==
    IF linesAdded # 0 \/ linesDeleted # 0
    THEN adjusted(h,
                  widened(startLine,
                          startLine - getPrevUnmarkedLine(viewMarks(h, hOther(h.focus)),
                                                          startLine),
                          linesAdded, linesDeleted),
                  startLine)
    ELSE sectionsOf(h.focus, [off |-> startLine, len |-> 1],
                    [off |-> startLine, len |-> 1], startLine)

\* DelayedUpdate::operator(): the two sections of the windowed re-diff
updateSections(h, changePos, linesAdded, linesDeleted) ==
    sectionsAt(h, changeLine(h, changePos), linesAdded, linesDeleted)

\* DelayedUpdate::operator(): clearMarksAndBlanks or clearMarks on both views
sectionsCleared(h, secs) ==
    hClearMarks(hClearMarks(h, MAIN_VIEW, secs.main.off, secs.main.len),
                SUB_VIEW, secs.sub.off, secs.sub.len)

\* DelayedUpdate::operator(): the windowed branch
updateWindowed(st, secs, result, pattern) ==
    [st EXCEPT !.h = IF result = MISMATCH
                     THEN compareViewsMarks(sectionsCleared(@, secs),
                                            secs.main, secs.sub, pattern)
                     ELSE sectionsCleared(@, secs),
               !.update.linesAdded = 0,
               !.update.linesDeleted = 0,
               !.calls = Append(@, DiffCall(
                            IF st.update.linesAdded # 0 \/ st.update.linesDeleted # 0
                            THEN "windowed" ELSE "line", secs.main, secs.sub))]

\* DelayedUpdate::operator()
delayedUpdateFire(st, result, pattern, garbage) ==
    IF st.update.fullCompare
    THEN compareBegin([st EXCEPT !.update.pending = FALSE,
                                 !.update.linesAdded = 0,
                                 !.update.linesDeleted = 0,
                                 !.update.fullCompare = FALSE],
                      FALSE, TRUE, garbage)
    ELSE updateWindowed([st EXCEPT !.update.pending = FALSE],
                        updateSections(st.h, st.update.changePos, st.update.linesAdded,
                                       st.update.linesDeleted),
                        result, pattern)

\* DelayedAlign::operator(); needed is the answer of isAlignmentNeeded
delayedAlignFire(st0, needed) ==
    LET st == [st0 EXCEPT !.align = FALSE]
        idx == getCompare(st.list, hCurrent(st.h))
        realign == st.goToFirst \/ needed
    IN  IF idx = 0 THEN st
        ELSE IF st.list[idx].alignmentInfo = <<>> THEN st
        ELSE LET st1 == IF realign /\ ~st.stored /\ ~st.goToFirst
                        THEN [st EXCEPT !.stored = TRUE] ELSE st
             IN  IF st1.goToFirst THEN [st1 EXCEPT !.goToFirst = FALSE]
                 ELSE IF st1.stored THEN [st1 EXCEPT !.stored = FALSE]
                 ELSE st1

\* comparedFileActivated
comparedFileActivated(st) == [st EXCEPT !.mode = TRUE, !.stored = TRUE]

\* DelayedActivate::operator()
delayedActivateFire(st0) ==
    LET st == [st0 EXCEPT !.activation.pending = FALSE]
        buffId == st.activation.buffId
        idx == getCompare(st.list, buffId)
        otherFile == getOtherFileByBuffId(st.list[idx], buffId)
    IN  IF idx = 0 THEN st
        ELSE IF hDocId(st.h, hOther(st.h.focus)) # otherFile.sciDoc
        THEN comparedFileActivated(
                [st EXCEPT !.h = hActivate(hActivate(@, otherFile.buffId), buffId)])
        ELSE comparedFileActivated(st)

\* DelayedClose::operator(): a temp file is closed, or deleted when it is
\* closed already
tempFileClosed(h, f) ==
    IF hIsOpen(h, f.buffId) THEN fileClose(h, f) ELSE fileOnClose(h, f)

\* DelayedClose::operator(): what is done with the file that was closed
closedFileHandled(h, f) == IF f.isTemp # NO_TEMP THEN tempFileClosed(h, f) ELSE h

\* DelayedClose::operator(): what is done with the other file of the pair
otherFileHandled(h, f) ==
    IF f.isTemp # NO_TEMP THEN tempFileClosed(h, f)
    ELSE IF hIsOpen(h, f.buffId) THEN fileRestore(h, f)
    ELSE h

\* DelayedClose::operator(): the loop over closedBuffs, from the last to the first
RECURSIVE closeLoop(_, _)
closeLoop(st, i) ==
    IF i < 1 THEN st
    ELSE IF getCompare(st.list, st.closure.closedBuffs[i]) = 0 THEN closeLoop(st, i - 1)
    ELSE closeLoop(
            erasePair(
                [st EXCEPT !.h = otherFileHandled(
                    closedFileHandled(@,
                        getFileByBuffId(
                            st.list[getCompare(st.list, st.closure.closedBuffs[i])],
                            st.closure.closedBuffs[i])),
                    getOtherFileByBuffId(
                        st.list[getCompare(st.list, st.closure.closedBuffs[i])],
                        st.closure.closedBuffs[i]))],
                getCompare(st.list, st.closure.closedBuffs[i])),
            i - 1)

\* the total number of open buffers
hTotalFiles(h) == Len(h.tabs[MAIN_VIEW]) + Len(h.tabs[SUB_VIEW])

\* DelayedClose::operator(): the last file is moved to the main view
lastFileToMain(h) ==
    IF hTotalFiles(h) = 1 /\ h.focus = SUB_VIEW
    THEN [h EXCEPT !.tabs[MAIN_VIEW] = h.tabs[SUB_VIEW],
                   !.tabs[SUB_VIEW] = <<>>,
                   !.active[MAIN_VIEW] = h.active[SUB_VIEW],
                   !.active[SUB_VIEW] = None,
                   !.focus = MAIN_VIEW]
    ELSE h

\* a firing that handles the closed buffers and keeps them in the queue
closedBuffsHandledKeepsQueue(st, currentBuffId) ==
    onBufferActivated([closeLoop(st, Len(st.closure.closedBuffs))
                       EXCEPT !.h = hActivate(@, currentBuffId)],
                      currentBuffId)

\* DelayedClose::operator(): the loop, and the activation of the buffer that
\* was current
closedBuffsHandled(st, currentBuffId) ==
    onBufferActivated([closeLoop(st, Len(st.closure.closedBuffs))
                       EXCEPT !.closure.closedBuffs = <<>>,
                              !.h = hActivate(@, currentBuffId)],
                      currentBuffId)

\* DelayedClose::operator()
delayedCloseFire(st) ==
    [closedBuffsHandled([st EXCEPT !.closure.pending = FALSE, !.lock = @ + 1],
                        hCurrent(st.h))
     EXCEPT !.h = lastFileToMain(@), !.lock = @ - 1]


\* ------------------------------------------------- the notification handlers
\* a new original position that is not kept from going below 0
otherOriginalPosUnclamped(pos, relativePos) ==
    IF relativePos > 0 THEN pos + relativePos - 1 ELSE pos + relativePos + 1

\* onFileBeforeClose: the new original position of the other file
otherOriginalPos(pos, relativePos) ==
    Max(0, IF relativePos > 0 THEN pos + relativePos - 1 ELSE pos + relativePos + 1)

\* a close that is noted without the close timer
closeNotedUnposted(st, idx, buffId, currentBuffId) ==
    [st EXCEPT !.h = IF currentBuffId # buffId THEN hActivate(@, currentBuffId) ELSE @]

\* onFileBeforeClose, after closedFile.onBeforeClose()
closeNoted(st, idx, buffId, currentBuffId) ==
    [st EXCEPT
        !.list[idx] =
            IF /\ @.relativePos # 0
               /\ getFileByBuffId(@, buffId).originalViewId = hViewOf(st.h, buffId)
            THEN [@ EXCEPT !.file[IF st.list[idx].file[1].buffId = buffId
                                  THEN 2 ELSE 1].originalPos =
                                otherOriginalPos(hPos(st.h, buffId),
                                                 st.list[idx].relativePos)]
            ELSE @,
        !.h = IF currentBuffId # buffId THEN hActivate(@, currentBuffId) ELSE @,
        !.closure.pending = TRUE]

\* onFileBeforeClose; its ScopedIncrementer is released at the return
onFileBeforeClose(st, buffId) ==
    IF getCompare(st.list, buffId) = 0 THEN st
    ELSE closeNoted(
            [st EXCEPT !.align = FALSE,
                       !.update.pending = FALSE,
                       !.activation.pending = FALSE,
                       !.closure = [pending |-> FALSE,
                                    closedBuffs |-> Append(@.closedBuffs, buffId)],
                       !.h = fileOnBeforeClose(@,
                                getFileByBuffId(st.list[getCompare(st.list, buffId)],
                                                buffId))],
            getCompare(st.list, buffId), buffId, hCurrent(st.h))

\* onFileSaved when the saved file is not of the active pair
savedInactive(st, buffId, currentBuffId) ==
    lockDec(onBufferActivated(
        [lockInc(st) EXCEPT !.h = hActivate(hActivate(@, buffId), currentBuffId)],
        currentBuffId))

\* onFileSaved when the saved file is of the active pair
savedActive(st) ==
    IF Settings.RecompareOnSave
    THEN [st EXCEPT !.align = FALSE,
                    !.update.fullCompare = TRUE,
                    !.update.pending = TRUE]
    ELSE st

\* onFileSaved
onFileSaved(st, buffId) ==
    IF getCompare(st.list, buffId) = 0 THEN st
    ELSE IF hCurrent(st.h) \in
                {buffId,
                 getOtherFileByBuffId(st.list[getCompare(st.list, buffId)], buffId).buffId}
    THEN savedActive(st)
    ELSE savedInactive(st, buffId, hCurrent(st.h))

\* the result of push or pop is stored: the history of the buffer and the
\* markers of its document
historyResult(st, buffId, r) == [st EXCEPT !.ds[buffId] = r.h, !.h.marks[buffId] = r.m]

\* onSciModified, SC_MOD_BEFOREDELETE: the deletion runs from startLine to endLine
onSciModifiedBeforeDelete(st, currAction, startLine, endLine, now) ==
    IF getCompare(st.list, hCurrent(st.h)) = 0 THEN st
    ELSE IF endLine <= startLine THEN st
    ELSE historyResult(st, hCurrent(st.h),
                       push(st.ds[hCurrent(st.h)], st.h.marks[hCurrent(st.h)],
                            currAction, startLine, endLine, now))

\* onSciModified, SC_MOD_INSERTTEXT with linesAdded lines added at startLine
onSciModifiedInsert(st, currAction, startLine, linesAdded, now) ==
    IF getCompare(st.list, hCurrent(st.h)) = 0 THEN st
    ELSE IF linesAdded = 0 THEN st
    ELSE historyResult(st, hCurrent(st.h),
                       pop(st.ds[hCurrent(st.h)], st.h.marks[hCurrent(st.h)],
                           currAction, startLine, now))

\* onSciModifiedUpdate, SC_MOD_BEFOREDELETE
onSciModifiedUpdateBeforeDelete(st, startLine, endLine) ==
    IF getCompare(st.list, hCurrent(st.h)) = 0 THEN st
    ELSE IF endLine > startLine
    THEN [st EXCEPT !.h = hClearMarks(@, @.focus, startLine, endLine - startLine + 1)]
    ELSE st

\* onSciModifiedUpdate without the test of delayedUpdate.fullCompare: every
\* edit notification re-arms the update and counts its lines
onSciModifiedUpdateTextAlways(st, isInsert, position, linesAdded) ==
    IF getCompare(st.list, hCurrent(st.h)) = 0 THEN st
    ELSE [st EXCEPT
            !.update.changePos = IF ~st.update.pending THEN position
                                 ELSE IF @ > position THEN position ELSE @,
            !.update.linesAdded = IF isInsert THEN @ + linesAdded ELSE @,
            !.update.linesDeleted = IF isInsert THEN @ ELSE @ + (0 - linesAdded),
            !.update.pending = TRUE]

\* onSciModifiedUpdate, SC_MOD_INSERTTEXT (isInsert) or SC_MOD_DELETETEXT at
\* position, linesAdded being the signed line count of the notification
onSciModifiedUpdateText(st, isInsert, position, linesAdded) ==
    IF getCompare(st.list, hCurrent(st.h)) = 0 THEN st
    ELSE IF st.update.fullCompare THEN st
    ELSE [st EXCEPT
            !.update.changePos = IF ~st.update.pending THEN position
                                 ELSE IF @ > position THEN position ELSE @,
            !.update.linesAdded = IF isInsert THEN @ + linesAdded ELSE @,
            !.update.linesDeleted = IF isInsert THEN @ ELSE @ + (0 - linesAdded),
            !.update.pending = TRUE]

\* ------------------------------------------------------------- the commands
\* SetAsFirst
SetAsFirst(st) ==
    LET r == setFirst(st, ~Settings.OldFileIsFirst)
    IN  IF r.ok THEN r.st ELSE [st EXCEPT !.nc = <<>>]

\* ClearActiveCompare
ClearActiveCompare(st) ==
    LET st1 == [st EXCEPT !.nc = <<>>]
    IN  IF st1.mode THEN clearComparePair(st1, hCurrent(st1.h)) ELSE st1

\* ClearAllCompares: the loop that restores the files of every pair, from the
\* last pair to the first
RECURSIVE restoreAll(_, _, _)
restoreAll(h, list, i) ==
    IF i < 1 THEN h ELSE restoreAll(restoreFiles(h, list[i], None), list, i - 1)

\* ClearAllCompares
ClearAllCompares(st) ==
    LET st1 == [st EXCEPT !.nc = <<>>]
        buffId == hCurrent(st1.h)
        focused == hSwitchToOtherView(st1.h)
        otherBuffId == hCurrent(focused)
        h1 == restoreAll(focused, st1.list, Len(st1.list))
        h2 == IF ~hIsSingleView(h1) THEN hActivate(h1, otherBuffId) ELSE h1
    IN  IF st1.list = <<>> THEN st1
        ELSE [st1 EXCEPT !.h = hActivate(h2, buffId),
                         !.list = <<>>,
                         !.ds = [b \in AllBuffers |-> EmptyHistory],
                         !.mode = FALSE]

\* NPPM_DOOPEN: the host opens the buffer as a new tab of the focused view and
\* shows it
hOpen(h, b, lines) ==
    [h EXCEPT !.tabs[h.focus] = Append(@, b),
              !.active[h.focus] = b,
              !.marks[b] = lines]

\* the step createTempFile gets to: the temp path cannot be built ("path"),
\* CopyFile fails ("copy"), NPPM_DOOPEN fails ("open"), or all succeed ("ok")
TempOutcomes == {"path", "copy", "open", "ok"}

\* createTempFile: the result and the state; CopyFile puts the temp file in
\* storage, NPPM_DOOPEN shows it (under notificationsLock) and the second file
\* of newCompare is marked as temp; every failure after setFirst ends in
\* newCompare.reset()
createTempFile(st, tempType, outcome) ==
    LET first == setFirst(st, TRUE)
        saved == [l \in 1 .. Len(st.h.marks[hCurrent(st.h)]) |-> {}]
        copied == [first.st EXCEPT !.h.storage = @ \cup {TempBuff}]
    IN  IF ~first.ok THEN [ok |-> FALSE, st |-> st]
        ELSE IF outcome = "ok"
        THEN [ok |-> TRUE,
              st |-> [copied EXCEPT !.h = hOpen(@, TempBuff, saved),
                                    !.nc[1].temp1 = tempType]]
        ELSE IF outcome = "open"
        THEN [ok |-> FALSE, st |-> [copied EXCEPT !.nc = <<>>]]
        ELSE [ok |-> FALSE, st |-> [first.st EXCEPT !.nc = <<>>]]

\* LastSaveDiff; exists is the answer of checkFileExists
LastSaveDiff(st, exists, outcome, garbage) ==
    LET temp == createTempFile(st, LAST_SAVED_TEMP, outcome)
    IN  IF ~exists THEN st
        ELSE IF temp.ok THEN compareBegin(temp.st, FALSE, TRUE, garbage)
        ELSE temp.st

\* ----------------------------------------------------------- the host edits
\* the editor deletes the text from line startLine to line endLine of a
\* document: the lines after startLine up to endLine go, and their markers are
\* merged into startLine
deleteLines(m, startLine, endLine) ==
    LET merged == UNION {m[l] : l \in startLine + 1 .. endLine + 1}
    IN  SubSeq(m, 1, startLine) \o <<merged>> \o SubSeq(m, endLine + 2, Len(m))

\* the editor inserts text that adds n lines at line startLine; the markers of
\* startLine stay with its text, which is before or after the inserted text
insertLines(m, startLine, n, atLineStart) ==
    LET blank == [i \in 1 .. n |-> {}]
    IN  SubSeq(m, 1, startLine)
            \o (IF atLineStart THEN blank \o <<m[startLine + 1]>>
                ELSE <<m[startLine + 1]>> \o blank)
            \o SubSeq(m, startLine + 2, Len(m))

\* SCN_MODIFIED is handled in compare mode when no handler is running
modifiedIsHandled(st) == st.mode /\ st.lock = 0

\* beNotified, SCN_MODIFIED with SC_MOD_BEFOREDELETE
beforeDelete(st, currAction, startLine, endLine, now) ==
    IF ~modifiedIsHandled(st) THEN st
    ELSE IF Settings.UpdateOnChange
    THEN onSciModifiedUpdateBeforeDelete(st, startLine, endLine)
    ELSE onSciModifiedBeforeDelete(st, currAction, startLine, endLine, now)

\* beNotified, SCN_MODIFIED with SC_MOD_DELETETEXT, that hands the notification
\* to onSciModifiedUpdate whatever the setting
afterDeleteAnySetting(st, startLine, endLine) ==
    IF modifiedIsHandled(st)
    THEN onSciModifiedUpdateText(st, FALSE, startLine, startLine - endLine)
    ELSE st

\* beNotified, SCN_MODIFIED with SC_MOD_DELETETEXT
afterDelete(st, startLine, endLine) ==
    IF modifiedIsHandled(st) /\ Settings.UpdateOnChange
    THEN onSciModifiedUpdateText(st, FALSE, startLine, startLine - endLine)
    ELSE st

\* one deletion by the editor in the current document, with the notifications
\* beNotified receives before and after it
deleteText(st, currAction, startLine, endLine, now) ==
    afterDelete([beforeDelete(st, currAction, startLine, endLine, now)
                 EXCEPT !.h.marks[hCurrent(st.h)] = deleteLines(@, startLine, endLine)],
                startLine, endLine)

\* beNotified, SCN_MODIFIED with SC_MOD_INSERTTEXT
afterInsert(st, currAction, startLine, n, now) ==
    IF ~modifiedIsHandled(st) THEN st
    ELSE IF Settings.UpdateOnChange
    THEN onSciModifiedUpdateText(st, TRUE, startLine, n)
    ELSE onSciModifiedInsert(st, currAction, startLine, n, now)

\* one insertion by the editor in the current document, with the notification
\* beNotified receives after it
insertText(st, currAction, startLine, n, atLineStart, now) ==
    afterInsert([st EXCEPT !.h.marks[hCurrent(st.h)] =
                                insertLines(@, startLine, n, atLineStart)],
                currAction, startLine, n, now)


\* ------------------------------------------------------ actions: the steps
\* one handler has run to its end (or to the next question compare() asks)
Step(st) == SetState(st)

\* the action that reverts an edit made by currAction
inverseAction(currAction) ==
    IF currAction = SC_PERFORMED_UNDO THEN SC_PERFORMED_REDO ELSE SC_PERFORMED_UNDO

\* the edits of the current document go through the marker history
tracked(st) ==
    /\ modifiedIsHandled(st)
    /\ ~Settings.UpdateOnChange
    /\ getCompare(st.list, hCurrent(st.h)) # 0

\* one edit of the current document: kind "del" deletes from line s to line
\* s + n, kind "ins" inserts n lines at line s
applyEdit(st, kind, currAction, s, n, atLineStart, now) ==
    IF kind = "del" THEN deleteText(st, currAction, s, s + n, now)
    ELSE insertText(st, currAction, s, n, atLineStart, now)

\* the edit fits the document and the bounds of the model
editFits(st, kind, s, n) ==
    LET b == hCurrent(st.h)
    IN  /\ b # None
        /\ Len(st.h.marks[b]) >= 1
        /\ s \in 0 .. Len(st.h.marks[b]) - 1
        /\ IF kind = "del" THEN s + n <= Len(st.h.marks[b]) - 1
           ELSE Len(st.h.marks[b]) + n <= MaxLines

historyFits(st) ==
    \A b \in AllBuffers : /\ Len(st.ds[b].sections) <= MaxSections
                          /\ st.ds[b].skipPush <= MaxSkip

\* the marker bitsets of lines s .. s + n of the current document
linesOf(st, s, n) ==
    LET m == st.h.marks[hCurrent(st.h)]
    IN  [i \in 1 .. n + 1 |-> MarkerGet(m, s + i - 1)]

NoProbe == [stage |-> "none", action |-> SC_PERFORMED_USER, s |-> 0, n |-> 0,
            before |-> <<>>]
NoReplScen == [stage |-> "none", action |-> SC_PERFORMED_USER, s |-> 0, n |-> 0,
               k |-> 0, time |-> 0]
NoSkipScen == [stage |-> "none", s |-> 0, n |-> 0, before |-> <<>>]

\* what the edit means for the three scenarios that are followed
probeAfter(st, kind, currAction, s, n) ==
    IF kind = "del" /\ n >= 1 /\ tracked(st)
    THEN [stage |-> "deleted", action |-> currAction, s |-> s, n |-> n,
          before |-> linesOf(st, s, n)]
    ELSE IF /\ kind = "ins" /\ probe.stage = "deleted"
            /\ currAction = inverseAction(probe.action)
            /\ s = probe.s /\ n = probe.n
    THEN [probe EXCEPT !.stage = "undone"]
    ELSE NoProbe

replScenAfter(st, kind, currAction, s, n, now) ==
    LET hist == st.ds[hCurrent(st.h)]
    IN  IF /\ kind = "del" /\ n >= 1 /\ replScen.stage = "replaced"
           /\ currAction = inverseAction(replScen.action)
           /\ s = replScen.s /\ n = replScen.k
        THEN [replScen EXCEPT !.stage = "revertPushed"]
        ELSE IF kind = "del" /\ n >= 1 /\ tracked(st) /\ hist.sections = <<>>
        THEN [stage |-> "deleted", action |-> currAction, s |-> s, n |-> n,
              k |-> 0, time |-> now]
        ELSE IF /\ kind = "ins" /\ n >= 1 /\ replScen.stage = "deleted"
                /\ currAction = replScen.action /\ s = replScen.s
                /\ now < replScen.time + ReplaceWindow
        THEN [replScen EXCEPT !.stage = "replaced", !.k = n]
        ELSE IF /\ kind = "ins" /\ replScen.stage = "revertPushed"
                /\ currAction = inverseAction(replScen.action)
                /\ s = replScen.s /\ n = replScen.n
        THEN [replScen EXCEPT !.stage = "reverted"]
        ELSE NoReplScen

skipScenAfter(st, kind, currAction, s, n) ==
    LET hist == st.ds[hCurrent(st.h)]
    IN  IF /\ kind = "del" /\ n >= 1 /\ skipScen.stage = "inserted"
           /\ currAction = SC_PERFORMED_USER
        THEN [stage |-> "deleted", s |-> s, n |-> n, before |-> linesOf(st, s, n)]
        ELSE IF /\ kind = "ins" /\ skipScen.stage = "deleted"
                /\ currAction = SC_PERFORMED_UNDO
                /\ s = skipScen.s /\ n = skipScen.n
        THEN [skipScen EXCEPT !.stage = "undone"]
        ELSE IF /\ kind = "ins" /\ n >= 1 /\ currAction = SC_PERFORMED_USER
                /\ tracked(st) /\ hist.sections = <<>> /\ hist.skipPush = 0
        THEN [NoSkipScen EXCEPT !.stage = "inserted"]
        ELSE NoSkipScen

\* an edit of the current document whose origin the editor's undo history
\* decides; after is the undo history the edit leaves
HistoryEdit(kind, currAction, s, n, atLineStart, after) ==
    LET st == applyEdit(State, kind, currAction, s, n, atLineStart, tickCount)
    IN  /\ pc = "idle"
        /\ editFits(State, kind, s, n)
        /\ historyFits(st)
        /\ Step(st)
        /\ undoHistory' = after
        /\ probe' = probeAfter(State, kind, currAction, s, n)
        /\ replScen' = replScenAfter(State, kind, currAction, s, n, tickCount)
        /\ skipScen' = skipScenAfter(State, kind, currAction, s, n)
        /\ UNCHANGED <<tickCount, Settings, burst, sessionOps, ended, notified, alignCase, minimized, delayedMaximize>>

\* the undo stack with one more edit on it
remember(undo, e) ==
    IF Len(undo) < MaxUndo THEN Append(undo, e)
    ELSE Append(SubSeq(undo, 2, Len(undo)), e)

\* the user deletes the text from line s to line s + n
UserDeleteText ==
    \E s \in 0 .. MaxLines - 1, n \in 1 .. MaxCount :
        HistoryEdit("del", SC_PERFORMED_USER, s, n, FALSE,
                    [undo |-> remember(undoHistory.undo,
                                       [kind |-> "del", s |-> s, n |-> n]),
                     redo |-> <<>>])

\* the user inserts text that adds n lines at line s
UserInsertText ==
    \E s \in 0 .. MaxLines - 1, n \in 1 .. MaxCount, atLineStart \in BOOLEAN :
        HistoryEdit("ins", SC_PERFORMED_USER, s, n, atLineStart,
                    [undo |-> remember(undoHistory.undo,
                                       [kind |-> "ins", s |-> s, n |-> n]),
                     redo |-> <<>>])

\* the kind of the edit that reverts an edit of the given kind
inverseKind(kind) == IF kind = "del" THEN "ins" ELSE "del"

\* the user undoes the last edit
HostUndo ==
    /\ undoHistory.undo # <<>>
    /\ LET e == undoHistory.undo[Len(undoHistory.undo)]
       IN  \E atLineStart \in BOOLEAN :
            /\ e.kind = "ins" => ~atLineStart
            /\ HistoryEdit(inverseKind(e.kind), SC_PERFORMED_UNDO, e.s, e.n, atLineStart,
                           [undo |-> SubSeq(undoHistory.undo, 1,
                                            Len(undoHistory.undo) - 1),
                            redo |-> Append(undoHistory.redo, e)])

\* the user redoes the edit undone last
HostRedo ==
    /\ undoHistory.redo # <<>>
    /\ LET e == undoHistory.redo[Len(undoHistory.redo)]
       IN  \E atLineStart \in BOOLEAN :
            /\ e.kind = "del" => ~atLineStart
            /\ HistoryEdit(e.kind, SC_PERFORMED_REDO, e.s, e.n, atLineStart,
                           [undo |-> remember(undoHistory.undo, e),
                            redo |-> SubSeq(undoHistory.redo, 1,
                                            Len(undoHistory.redo) - 1)])

\* time passes
Tick ==
    /\ tickCount + TickStep <= MaxTick
    /\ tickCount' = tickCount + TickStep
    /\ UNCHANGED <<tabs, active, focus, marks, undoHistory, storage, Settings,
                   compareList, newCompare, compareMode, notificationsLock,
                   deletedSections, delayedAlignment, delayedActivation,
                   delayedClosure, delayedUpdate, storedLocation, goToFirst, pc, cmp,
                   probe, replScen, skipScen, burst, sessionOps, ended, notified,
                   alignCase, minimized, delayedMaximize>>


\* ------------------------------------------------------- the initial states
\* the settings the session runs under
DefaultSettings ==
    [UpdateOnChange |-> FALSE, RecompareOnSave |-> TRUE, OldFileViewId |-> MAIN_VIEW,
     OldFileIsFirst |-> TRUE, CompareToPrev |-> TRUE, EncodingsCheck |-> TRUE,
     PromptToCloseOnMatch |-> TRUE, GotoFirstDiff |-> FALSE]

IdleUpdate == [pending |-> FALSE, changePos |-> 0, linesAdded |-> 0,
               linesDeleted |-> 0, fullCompare |-> FALSE]
NoBurst == [open |-> FALSE, minPos |-> 0, added |-> 0, deleted |-> 0, buffs |-> {}]

\* compare() has returned because the user cancelled it or the selections
\* were not valid
CANCELLED == "CANCELLED"

\* no alignment is looked at
NoAlignCase == [stage |-> "none"]
NoNotification == "none"

\* no compare() has just returned
NotEnded == [result |-> "none", accepted |-> FALSE, pair |-> <<>>, open |-> {}]

\* a ComparedFile as initFromCurrent and positionFiles leave it for a buffer
\* that was compared in the view it was opened in, at tab index pos
ComparedFileOf(b, view, pos, isNew) ==
    [buffId |-> b, isNew |-> isNew, isTemp |-> NO_TEMP, originalViewId |-> view,
     compareViewId |-> view, originalPos |-> pos, sciDoc |-> b]

\* the pair a first compare of buffer 2 (sub view, current) with buffer 1 (main
\* view) leaves in the registry when it ends in a mismatch
EstablishedPair ==
    [file |-> <<ComparedFileOf(2, SUB_VIEW, 0, TRUE),
                ComparedFileOf(1, MAIN_VIEW, 0, FALSE)>>,
     relativePos |-> 0,
     positioned |-> TRUE,
     isFullCompare |-> TRUE,
     compared |-> TRUE,
     alignmentInfo |-> compareViewsAlignment([off |-> 0, len |-> 0],
                                             [off |-> 0, len |-> 0])]

\* the plugin and the host right after start: nothing compared, nothing pending
InitIdle ==
    /\ undoHistory = [undo |-> <<>>, redo |-> <<>>]
    /\ storage = {}
    /\ newCompare = <<>>
    /\ notificationsLock = 0
    /\ deletedSections = [b \in AllBuffers |-> EmptyHistory]
    /\ delayedAlignment = FALSE
    /\ delayedActivation = [pending |-> FALSE, buffId |-> None]
    /\ delayedClosure = [pending |-> FALSE, closedBuffs |-> <<>>]
    /\ delayedUpdate = IdleUpdate
    /\ storedLocation = FALSE
    /\ goToFirst = FALSE
    /\ pc = "idle"
    /\ cmp = NoCmp
    /\ probe = NoProbe
    /\ replScen = NoReplScen
    /\ skipScen = NoSkipScen
    /\ burst = NoBurst
    /\ ended = NotEnded
    /\ notified = NoNotification
    /\ minimized = FALSE
    /\ delayedMaximize = FALSE

\* the plugin right after start, and no alignment looked at
InitPlugin ==
    /\ InitIdle
    /\ tickCount = 0
    /\ alignCase = NoAlignCase

\* the lines of the documents when a session with an established pair starts
InitLines == 2

\* buffers 1 and 2 are compared, buffer 2 is current, and the diff has left
\* markers on some lines of buffer 2
InitHistory ==
    /\ InitPlugin
    /\ sessionOps = PairSetupOps
    /\ Settings = DefaultSettings
    /\ tabs = [v \in Views |-> IF v = MAIN_VIEW THEN <<1>> ELSE <<2>>]
    /\ active = [v \in Views |-> IF v = MAIN_VIEW THEN 1 ELSE 2]
    /\ focus = SUB_VIEW
    /\ \E m \in [1 .. InitLines -> MarkerValues] :
          marks = [b \in AllBuffers |->
                      IF b = 2 THEN m
                      ELSE IF b = 1 THEN [l \in 1 .. InitLines |-> {}]
                      ELSE <<>>]
    /\ compareList = <<EstablishedPair>>
    /\ compareMode = TRUE

NextHistory ==
    \/ UserDeleteText
    \/ UserInsertText
    \/ HostUndo
    \/ HostRedo
    \/ Tick

SpecHistory == InitHistory /\ [][NextHistory]_vars

\* C2: a multi-line delete followed immediately by its exact undo leaves every
\* line from the start line to the end line of the delete with the marker
\* bitset it had before the delete, whatever the history of push and pop calls
\* before the delete
RestoreFidelity ==
    probe.stage = "undone" =>
        linesOf(State, probe.s, probe.n) = probe.before

\* C3: a multi-line delete followed by an insert at the same line with the
\* same action within the replace-detection window leaves exactly one record,
\* flagged lineReplace; the push of the revert adds no record, and the pop of
\* the revert removes the record
ReplaceClassification ==
    LET hist == deletedSections[getCurrentBuffId]
    IN  /\ replScen.stage = "replaced" =>
              /\ Len(hist.sections) = 1
              /\ hist.sections[1].lineReplace
        /\ replScen.stage = "revertPushed" => Len(hist.sections) = 1
        /\ replScen.stage = "reverted" => hist.sections = <<>>

\* C4: from an empty history with skipPush = 0, a multi-line insert with no
\* tracked delete before it, then an unrelated multi-line delete and the undo
\* of that delete end with skipPush = 0, an empty record stack and the markers
\* of the deleted lines as they were before the delete
SkipCounterSymmetry ==
    skipScen.stage = "undone" =>
        /\ deletedSections[getCurrentBuffId].skipPush = 0
        /\ deletedSections[getCurrentBuffId].sections = <<>>
        /\ linesOf(State, skipScen.s, skipScen.n) = skipScen.before


\* ------------------------------------------------- actions: host and timers
\* the ghost variables of the marker history are left alone
HistoryGhostsUnchanged == UNCHANGED <<undoHistory, probe, replScen, skipScen>>

\* the arming code of onSciModifiedUpdate runs for an edit in state st
arms(st) ==
    /\ modifiedIsHandled(st)
    /\ Settings.UpdateOnChange
    /\ getCompare(st.list, hCurrent(st.h)) # 0
    /\ ~st.update.fullCompare

\* the notifications of the burst that is under way, and the buffers they
\* came from
burstAfterEdit(st, isInsert, position, n) ==
    IF ~arms(st) THEN burst
    ELSE IF ~burst.open
    THEN [open |-> TRUE, minPos |-> position,
          added |-> IF isInsert THEN n ELSE 0,
          deleted |-> IF isInsert THEN 0 ELSE n,
          buffs |-> {hCurrent(st.h)}]
    ELSE [burst EXCEPT !.minPos = Min(@, position),
                       !.added = IF isInsert THEN @ + n ELSE @,
                       !.deleted = IF isInsert THEN @ ELSE @ + n,
                       !.buffs = @ \cup {hCurrent(st.h)}]

\* a burst ends when the update slot is no longer armed for a windowed update
burstAfter(st) ==
    IF st.update.pending /\ ~st.update.fullCompare THEN burst ELSE NoBurst

countersFit(st) ==
    st.update.linesAdded <= MaxCount /\ st.update.linesDeleted <= MaxCount

\* an edit of the current document, which is compared, of any origin: the text
\* from line s to line s + n is deleted (n = 0: within the line)
EditDelete ==
    \E s \in 0 .. MaxLines - 1, n \in 0 .. MaxEditLines :
        LET st == applyEdit(State, "del", SC_PERFORMED_USER, s, n, FALSE, tickCount)
        IN  /\ pc = "idle"
            /\ sessionOps < MaxSessionOps
            /\ getCompare(compareList, getCurrentBuffId) # 0
            /\ editFits(State, "del", s, n)
            /\ countersFit(st) /\ historyFits(st)
            /\ Step(st)
            /\ burst' = burstAfterEdit(State, FALSE, s, n)
            /\ HistoryGhostsUnchanged
            /\ sessionOps' = sessionOps + 1
            /\ ended' = NotEnded
            /\ notified' = NoNotification
            /\ UNCHANGED <<tickCount, Settings, alignCase, minimized, delayedMaximize>>

\* an edit of the current document, which is compared, of any origin: text
\* that adds n lines is inserted at line s (n = 0: within the line)
EditInsert ==
    \E s \in 0 .. MaxLines - 1, n \in 0 .. MaxEditLines, atLineStart \in BOOLEAN :
        LET st == applyEdit(State, "ins", SC_PERFORMED_USER, s, n, atLineStart,
                            tickCount)
        IN  /\ pc = "idle"
            /\ sessionOps < MaxSessionOps
            /\ getCompare(compareList, getCurrentBuffId) # 0
            /\ editFits(State, "ins", s, n)
            /\ n = 0 => ~atLineStart
            /\ countersFit(st) /\ historyFits(st)
            /\ Step(st)
            /\ burst' = burstAfterEdit(State, TRUE, s, n)
            /\ HistoryGhostsUnchanged
            /\ sessionOps' = sessionOps + 1
            /\ ended' = NotEnded
            /\ notified' = NoNotification
            /\ UNCHANGED <<tickCount, Settings, alignCase, minimized, delayedMaximize>>

\* a step of a handler has run; e tells how compare() ended when the step is
\* its return after the diff or after a cancelled question
Ended(st, e) ==
    /\ Step(st)
    /\ burst' = burstAfter(st)
    /\ HistoryGhostsUnchanged
    /\ ended' = e
    /\ notified' = NoNotification
    /\ UNCHANGED <<tickCount, Settings, sessionOps, alignCase, minimized, delayedMaximize>>

\* a handler other than an edit has run
Handled(st) == Ended(st, NotEnded)

\* compare() has returned for the pair at idx of the registry; open are the
\* buffers that were open when it came to its last step
EndedWith(result, accepted, idx) ==
    [result |-> result, accepted |-> accepted, pair |-> <<compareList[idx]>>,
     open |-> {b \in AllBuffers : hIsOpen(Host, b)}]

\* an operation of the user (a menu command, or a tab shown, moved, closed or
\* saved) has been handled: one more of the session
Commanded(st) ==
    /\ sessionOps < MaxSessionOps
    /\ Step(st)
    /\ burst' = burstAfter(st)
    /\ HistoryGhostsUnchanged
    /\ sessionOps' = sessionOps + 1
    /\ ended' = NotEnded
    /\ notified' = NoNotification
    /\ UNCHANGED <<tickCount, Settings, alignCase, minimized, delayedMaximize>>

\* beNotified, NPPN_BUFFERACTIVATED
notifyBufferActivated(st, buffId) ==
    IF st.list # <<>> /\ st.lock = 0 /\ ~st.closure.pending
    THEN onBufferActivated(st, buffId) ELSE st

\* beNotified, NPPN_FILEBEFORECLOSE without the test of the guard counter
notifyFileBeforeCloseUnguarded(st, buffId) ==
    IF st.nc # <<>> /\ st.nc[1].file0.buffId = buffId THEN [st EXCEPT !.nc = <<>>]
    ELSE IF st.list # <<>> THEN onFileBeforeClose(st, buffId)
    ELSE st

\* beNotified, NPPN_FILEBEFORECLOSE
notifyFileBeforeClose(st, buffId) ==
    IF st.nc # <<>> /\ st.nc[1].file0.buffId = buffId THEN [st EXCEPT !.nc = <<>>]
    ELSE IF st.list # <<>> /\ st.lock = 0 THEN onFileBeforeClose(st, buffId)
    ELSE st

\* the user shows another open buffer
HostActivate ==
    \E b \in AllBuffers :
        /\ pc = "idle"
        /\ hIsOpen(Host, b)
        /\ b # getCurrentBuffId
        /\ Commanded(notifyBufferActivated([State EXCEPT !.h = hActivate(@, b)], b))

\* the user closes the current buffer: the host announces the close, closes
\* the buffer and shows the buffer that takes its place
HostClose ==
    LET b == getCurrentBuffId
        announced == notifyFileBeforeClose(State, b)
        closed == [announced EXCEPT !.h = hCloseCurrent(hActivate(@, b))]
    IN  /\ pc = "idle"
        /\ b # None
        /\ hTotalFiles(Host) > 1
        /\ Commanded(notifyBufferActivated(closed, hCurrent(closed.h)))

\* beNotified, NPPN_FILESAVED
notifyFileSaved(st, buffId) ==
    IF st.list # <<>> /\ st.lock = 0 THEN onFileSaved(st, buffId) ELSE st

\* beNotified, SCN_PAINTED: onSciPaint arms the alignment
notifyPainted(st) ==
    IF /\ st.mode /\ st.lock = 0
       /\ ~st.activation.pending /\ ~st.closure.pending /\ ~st.update.pending
    THEN [st EXCEPT !.align = TRUE] ELSE st

\* beNotified, SCN_UPDATEUI: onSciUpdateUI takes the guard counter and gives
\* the other view the scroll position, which is no part of the state here
notifyUpdateUI(st) ==
    IF /\ st.mode /\ st.lock = 0 /\ ~st.stored /\ ~st.goToFirst
       /\ ~st.activation.pending /\ ~st.closure.pending /\ ~st.update.pending
    THEN lockDec(lockInc(st)) ELSE st

\* beNotified, SCN_ZOOM: onSciZoom takes the guard counter and gives the other
\* view the zoom, which is no part of the state here
notifyZoom(st) ==
    IF st.mode /\ st.lock = 0 /\ getCompare(st.list, hCurrent(st.h)) # 0
    THEN lockDec(lockInc(st)) ELSE st

\* the notifications of the host that the guard counter keeps out; a text
\* modification is of the first line of the current document
BufferNotifications == {"NPPN_BUFFERACTIVATED", "NPPN_FILEBEFORECLOSE", "NPPN_FILESAVED"}
ViewNotifications ==
    {"SCN_PAINTED", "SCN_UPDATEUI", "SCN_ZOOM", "SC_MOD_BEFOREDELETE",
     "SC_MOD_DELETETEXT", "SC_MOD_INSERTTEXT"}
Notifications ==
    [code : BufferNotifications, id : AllBuffers] \cup [code : ViewNotifications, id : {None}]

\* beNotified
beNotified(st, n, now) ==
    CASE n.code = "SCN_PAINTED" -> notifyPainted(st)
      [] n.code = "SCN_UPDATEUI" -> notifyUpdateUI(st)
      [] n.code = "NPPN_BUFFERACTIVATED" -> notifyBufferActivated(st, n.id)
      [] n.code = "NPPN_FILEBEFORECLOSE" -> notifyFileBeforeClose(st, n.id)
      [] n.code = "NPPN_FILESAVED" -> notifyFileSaved(st, n.id)
      [] n.code = "SC_MOD_BEFOREDELETE" -> beforeDelete(st, SC_PERFORMED_USER, 0, 0, now)
      [] n.code = "SC_MOD_DELETETEXT" -> afterDelete(st, 0, 0)
      [] n.code = "SC_MOD_INSERTTEXT" -> afterInsert(st, SC_PERFORMED_USER, 0, 0, now)
      [] n.code = "SCN_ZOOM" -> notifyZoom(st)

\* a notification of the host comes in while compare() waits for an answer,
\* with the guard counter taken
NotifyLocked ==
    \E n \in Notifications :
        /\ pc # "idle"
        /\ notificationsLock # 0
        /\ Step(beNotified(State, n, tickCount))
        /\ notified' = n.code
        /\ HistoryGhostsUnchanged
        /\ UNCHANGED <<tickCount, Settings, burst, sessionOps, ended, alignCase, minimized, delayedMaximize>>

\* the user saves the current buffer
HostSave ==
    /\ pc = "idle"
    /\ getCurrentBuffId # None
    /\ compareList # <<>> /\ notificationsLock = 0
    /\ Commanded(onFileSaved(State, getCurrentBuffId))

\* beNotified, SCN_PAINTED: onSciPaint arms the alignment
Paint ==
    /\ pc = "idle"
    /\ compareMode /\ notificationsLock = 0
    /\ ~delayedActivation.pending /\ ~delayedClosure.pending /\ ~delayedUpdate.pending
    /\ ~delayedAlignment
    /\ Handled([State EXCEPT !.align = TRUE])

\* the timer of the alignment slot fires
AlignFire ==
    \E needed \in BOOLEAN :
        /\ pc = "idle"
        /\ delayedAlignment
        /\ Handled(delayedAlignFire(State, needed))

\* the timer of the activation slot fires
ActivateFire ==
    /\ pc = "idle"
    /\ delayedActivation.pending
    /\ Handled(delayedActivateFire(State))

\* the timer of the batched-close slot fires
CloseFire ==
    /\ pc = "idle"
    /\ delayedClosure.pending
    /\ Handled(delayedCloseFire(State))

\* the timer of the update slot fires
UpdateFire ==
    \E result \in CompareResults, pattern \in DiffPatterns, garbage \in Garbage :
        /\ pc = "idle"
        /\ delayedUpdate.pending
        /\ delayedUpdate.fullCompare => result = MISMATCH /\ pattern = "first"
        /\ result # MISMATCH => pattern = "first"
        /\ ~delayedUpdate.fullCompare => garbage = CHOOSE g \in Garbage : TRUE
        /\ Handled(delayedUpdateFire(State, result, pattern, garbage))

\* compare(): the diff has run
CompareDiff ==
    \E result \in CompareResults, pattern \in DiffPatterns, closeOnMatch \in BOOLEAN :
        /\ pc = "diff"
        /\ result # MISMATCH => pattern = "first"
        /\ result # MATCH => ~closeOnMatch
        /\ Ended(compareDiff(State, result, pattern, closeOnMatch),
                 EndedWith(result,
                           closeAccepted(State, cmp.idx, result, closeOnMatch),
                           cmp.idx))


\* ------------------------------------------------ the session with updates
\* buffers 1 and 2 are compared and buffer 2 is current; changes are
\* re-compared as they are made
InitUpdate ==
    /\ InitPlugin
    /\ sessionOps = PairSetupOps
    /\ Settings = [DefaultSettings EXCEPT !.UpdateOnChange = TRUE]
    /\ tabs = [v \in Views |-> IF v = MAIN_VIEW THEN <<1>> ELSE <<2>>]
    /\ active = [v \in Views |-> IF v = MAIN_VIEW THEN 1 ELSE 2]
    /\ focus = SUB_VIEW
    /\ \E m \in [1 .. InitLines -> MarkerValues] :
          marks = [b \in AllBuffers |-> IF b \in {1, 2} THEN m ELSE <<>>]
    /\ compareList = <<EstablishedPair>>
    /\ compareMode = TRUE

NextUpdate ==
    \/ EditDelete
    \/ EditInsert
    \/ HostActivate
    \/ HostClose
    \/ HostSave
    \/ ActivateFire
    \/ CloseFire
    \/ UpdateFire
    \/ CompareDiff

SpecUpdate == InitUpdate /\ [][NextUpdate]_vars


\* the sections the update action requests from the diff when it fires now
requestedSections ==
    updateSections(Host, delayedUpdate.changePos, delayedUpdate.linesAdded,
                   delayedUpdate.linesDeleted)

\* the markers of the pane that was not edited
uneditedMarks == viewMarks(Host, getOtherViewId)

\* C5: when the update action fires for an edit that added lines, the range
\* requested from the diff on each pane starts no earlier than the nearest
\* unmarked line at or before the line of the edit on the unedited pane, and
\* ends no later than the nearest unmarked line after the widened window on
\* the unedited pane
WindowedRediffContainment ==
    (/\ pc = "idle"
     /\ delayedUpdate.pending /\ ~delayedUpdate.fullCompare
     /\ delayedUpdate.linesAdded > 0 /\ delayedUpdate.linesDeleted = 0
     /\ getCurrentBuffId # None)
    => \A sec \in {requestedSections.main, requestedSections.sub} :
          /\ sec.off >= getPrevUnmarkedLine(uneditedMarks, requestedSections.startLine)
          /\ sec.off + sec.len - 1 <=
                getNextUnmarkedLine(uneditedMarks,
                    requestedSections.startLine + delayedUpdate.linesAdded)

\* C6: whenever the update slot is idle it holds nothing of a cancelled
\* update: linesAdded = 0, linesDeleted = 0 and fullCompare = false
CancelledUpdateLeavesNothing ==
    ~delayedUpdate.pending =>
        /\ delayedUpdate.linesAdded = 0
        /\ delayedUpdate.linesDeleted = 0
        /\ ~delayedUpdate.fullCompare

\* none of the queued closed buffers is in a pair of the registry
noClosedBuffCompared ==
    \A i \in 1 .. Len(delayedClosure.closedBuffs) :
        getCompare(compareList, delayedClosure.closedBuffs[i]) = 0

\* the step changes no markers, does not change the registry and leaves no
\* compare running
nothingDone == marks' = marks /\ compareList' = compareList /\ pc' = "idle"

\* C7: a delayed action that fires for a buffer that is in no pair of the
\* registry (the current buffer for the alignment and the update, the
\* recorded buffer for the activation, every queued buffer for the close)
\* changes no markers, does not change the registry and starts no compare
FiredActionsCheckRelevance ==
    [][/\ (getCompare(compareList, getCurrentBuffId) = 0 /\ AlignFire) => nothingDone
       /\ (getCompare(compareList, delayedActivation.buffId) = 0 /\ ActivateFire)
             => nothingDone
       /\ (noClosedBuffCompared /\ CloseFire) => nothingDone
       /\ (getCompare(compareList, getCurrentBuffId) = 0 /\ UpdateFire)
             => nothingDone]_vars

\* C8: with update-on-change on and no full compare pending, the update that
\* is armed after a burst of insert and delete notifications holds the
\* minimum position of the burst and the sums of its inserted and deleted
\* line counts, and these are the values of the one firing that follows
EditCoalescing ==
    (delayedUpdate.pending /\ ~delayedUpdate.fullCompare /\ burst.open) =>
        /\ delayedUpdate.changePos = burst.minPos
        /\ delayedUpdate.linesAdded = burst.added
        /\ delayedUpdate.linesDeleted = burst.deleted

\* the update slot after the firing of a full compare
firedFull == [IdleUpdate EXCEPT !.changePos = delayedUpdate.changePos]

HostMoveToOtherView ==
    /\ pc = "idle"
    /\ hMoveToOtherView(Host) # Host
    /\ Commanded(notifyBufferActivated([State EXCEPT !.h = hMoveToOtherView(@)],
                                       getCurrentBuffId))

\* the menu command "Set as First to Compare"
MenuSetAsFirst ==
    /\ pc = "idle"
    /\ getCurrentBuffId # None
    /\ Commanded(SetAsFirst(State))

\* the menu commands "Compare" and "Compare Selected Lines"
MenuCompare ==
    \E selectionCompare \in BOOLEAN, selectionsValid \in BOOLEAN, garbage \in Garbage :
        /\ pc = "idle"
        /\ getCurrentBuffId # None
        /\ Len(compareList) < MaxPairs
        /\ ~selectionCompare => selectionsValid
        /\ Commanded(compareBegin(State, selectionCompare, selectionsValid, garbage))

\* compare(): areSelectionsValid has answered for the new pair
CompareSelection ==
    \E valid \in BOOLEAN :
        /\ pc = "selection"
        /\ Ended(compareSelection(State, valid),
                 IF valid THEN NotEnded ELSE EndedWith(CANCELLED, FALSE, cmp.idx))

\* compare(): isEncodingOK has answered for the new pair
CompareEncoding ==
    \E ok \in BOOLEAN :
        /\ pc = "encoding"
        /\ Ended(compareEncoding(State, ok),
                 IF ok THEN NotEnded ELSE EndedWith(CANCELLED, FALSE, cmp.idx))

\* the menu command "Clear Active Compare"
MenuClearActive ==
    /\ pc = "idle"
    /\ compareList # <<>>
    /\ Commanded(ClearActiveCompare(State))

\* the menu command "Clear All Compares"
MenuClearAll ==
    /\ pc = "idle"
    /\ compareList # <<>>
    /\ Commanded(ClearAllCompares(State))

\* the menu command "Diff since last Save": the saved content of the current
\* file is opened as a temp buffer and compared with the file
MenuLastSaveDiff ==
    \E exists \in BOOLEAN, outcome \in TempOutcomes, garbage \in Garbage :
        /\ pc = "idle"
        /\ getCurrentBuffId # None
        /\ Len(compareList) < MaxPairs
        /\ ~hIsOpen(Host, TempBuff) /\ TempBuff \notin storage
        /\ ~exists => outcome = "path"
        /\ Commanded(LastSaveDiff(State, exists, outcome, garbage))

\* the host has opened three files in the main view; nothing is compared
Init ==
    /\ InitPlugin
    /\ sessionOps = OpenOps
    /\ Settings = DefaultSettings
    /\ tabs = [v \in Views |-> IF v = MAIN_VIEW THEN <<1, 2, 3>> ELSE <<>>]
    /\ active = [v \in Views |-> IF v = MAIN_VIEW THEN 1 ELSE None]
    /\ focus = MAIN_VIEW
    /\ marks = [b \in AllBuffers |-> IF b \in Buffers THEN <<{}>> ELSE <<>>]
    /\ compareList = <<>>
    /\ compareMode = FALSE

Next ==
    \/ MenuSetAsFirst
    \/ MenuCompare
    \/ CompareSelection
    \/ CompareEncoding
    \/ CompareDiff
    \/ MenuClearActive
    \/ MenuClearAll
    \/ HostActivate
    \/ HostMoveToOtherView
    \/ HostClose
    \/ HostSave
    \/ Paint
    \/ AlignFire
    \/ ActivateFire
    \/ CloseFire
    \/ UpdateFire

Spec == Init /\ [][Next]_vars

\* the pairs of the registry that hold the buffer
pairsOf(b) ==
    {i \in 1 .. Len(compareList) :
        b \in {compareList[i].file[1].buffId, compareList[i].file[2].buffId}}

\* C1: in every reachable state each buffer is in at most one pair of the
\* registry: no sequence of commands adds a second pair that holds a buffer
\* of a pair that is still in the registry
RegistryExclusivity ==
    \A b \in AllBuffers : Cardinality(pairsOf(b)) <= 1

\* C10: in no reachable state, the states in which the selection check, the
\* encoding prompt or the diff is still running included, does the registry
\* hold a pair for which no compare has returned successfully
PairInsertedAfterCompare ==
    \A i \in 1 .. Len(compareList) : compareList[i].compared

\* when compare() is not running every pair of the registry has had a compare
\* that ended in a mismatch: compare() removes the pair it inserted when its
\* first compare does not
PairComparedWhenIdle ==
    pc = "idle" => \A i \in 1 .. Len(compareList) : compareList[i].compared

\* ------------------------------------------- the session with a temp file
\* the host has opened two files in the main view; nothing is compared
InitTemp ==
    /\ InitPlugin
    /\ sessionOps = OpenOps
    /\ Settings = DefaultSettings
    /\ tabs = [v \in Views |-> IF v = MAIN_VIEW THEN <<1, 2>> ELSE <<>>]
    /\ active = [v \in Views |-> IF v = MAIN_VIEW THEN 1 ELSE None]
    /\ focus = MAIN_VIEW
    /\ marks = [b \in AllBuffers |-> IF b \in {1, 2} THEN <<{}>> ELSE <<>>]
    /\ compareList = <<>>
    /\ compareMode = FALSE

NextTemp ==
    \/ MenuLastSaveDiff
    \/ MenuCompare
    \/ CompareSelection
    \/ CompareEncoding
    \/ CompareDiff
    \/ MenuClearActive
    \/ MenuClearAll
    \/ HostActivate
    \/ HostClose
    \/ HostSave
    \/ ActivateFire
    \/ CloseFire
    \/ UpdateFire

SpecTemp == InitTemp /\ [][NextTemp]_vars

\* the pair that compare() has just returned for is still in the registry
endedPairKept ==
    \E i \in 1 .. Len(compareList) :
        /\ compareList[i].file[1].buffId = ended.pair[1].file[1].buffId
        /\ compareList[i].file[2].buffId = ended.pair[1].file[2].buffId

\* no line of the buffer carries a compare marker
markersCleared(b) ==
    \A l \in 1 .. Len(marks[b]) : marks[b][l] \cap MARKER_MASK_ALL = {}

\* C11: when compare() has returned the pair is in the registry if and only if
\* the diff result was a mismatch; after a match, an error or a cancel the
\* pair is gone from the registry, the markers of its two buffers are cleared,
\* a buffer that is not a temp file and was open is still open unless the user
\* accepted to close the files on the match, and a temp buffer of the pair is
\* closed
CompareOutcome ==
    ended.result # "none" =>
        /\ endedPairKept <=> ended.result = MISMATCH
        /\ ended.result # MISMATCH =>
              \A k \in 1 .. 2 :
                 LET f == ended.pair[1].file[k]
                 IN  /\ markersCleared(f.buffId)
                     /\ f.isTemp # NO_TEMP => ~hIsOpen(Host, f.buffId)
                     /\ (f.isTemp = NO_TEMP /\ ~ended.accepted
                                             /\ f.buffId \in ended.open)
                           => hIsOpen(Host, f.buffId)

\* the step leaves the registry, the first file that was set and every marker
\* as they were
nothingTouched ==
    /\ compareList' = compareList
    /\ newCompare' = newCompare
    /\ marks' = marks

\* C12: a command that is ignored because its precondition fails (Set as First
\* or the diff with the saved file on a file that is already compared, Compare
\* that returns at once because the file is already compared, only one file
\* is open or no selection is valid, the diff with the saved file when the
\* file is not on disk) leaves the registry, newCompare and all markers as
\* they were before the command
IgnoredOperationChangesNothing ==
    [][/\ (pc = "idle" /\ isFileCompared(Host, compareList, focus) /\ MenuSetAsFirst)
             => nothingTouched
       /\ (pc = "idle" /\ pc' = "idle" /\ MenuCompare) => nothingTouched
       /\ (pc = "idle" /\ Commanded(LastSaveDiff(State, FALSE, "path",
                                                 CHOOSE g \in Garbage : TRUE)))
             => nothingTouched
       /\ (pc = "idle" /\ isFileCompared(Host, compareList, focus)
                       /\ Commanded(LastSaveDiff(State, TRUE, "ok",
                                                 CHOOSE g \in Garbage : TRUE)))
             => nothingTouched]_vars

\* the steps at which createTempFile fails
TempFailures == TempOutcomes \ {"ok"}

\* C13: when the creation of the temp buffer fails at any step (the temp path,
\* the copy, or the opening of the copy by the host) the pair is not created
\* and nothing of the attempt is left: newCompare is empty, the registry is
\* unchanged, no compare is run and no temp storage made by the attempt
\* remains
TempFailureReleasesAll ==
    [][(/\ pc = "idle"
        /\ ~isFileCompared(Host, compareList, focus)
        /\ \E outcome \in TempFailures :
              Commanded(LastSaveDiff(State, TRUE, outcome, CHOOSE g \in Garbage : TRUE)))
       => /\ newCompare' = <<>>
          /\ compareList' = compareList
          /\ pc' = "idle"
          /\ storage' = storage]_vars

\* the temp files of the pairs of a registry
tempBuffs(list) ==
    {list[i].file[k].buffId : i \in 1 .. Len(list), k \in 1 .. 2} \cap
    {b \in AllBuffers : \E i \in 1 .. Len(list), k \in 1 .. 2 :
        list[i].file[k].buffId = b /\ list[i].file[k].isTemp # NO_TEMP}

\* C14: the storage of a temp file of a pair is deleted once, in the step in
\* which the pair leaves the registry, whichever of clear, clear all, match,
\* compare again and a close by the user makes it leave: it exists as long as
\* the pair is in the registry, and a step deletes it if and only if the pair
\* leaves the registry in that step
TempStorageDeletedOnce ==
    /\ [](tempBuffs(compareList) \subseteq storage)
    /\ [][\A b \in storage :
            b \notin storage' <=>
                (b \in tempBuffs(compareList) /\ b \notin tempBuffs(compareList'))]_vars

\* a compare with the saved content of a file has ended without a mismatch:
\* the pair has left the registry, its temp buffer is closed and the storage
\* of the temp file is deleted
TempStorageDeleted ==
    /\ ended.result \in {MATCH, COMPARE_ERROR, CANCELLED}
    /\ \E k \in 1 .. 2 : ended.pair[1].file[k].isTemp # NO_TEMP
    /\ ~endedPairKept
    /\ ~hIsOpen(Host, TempBuff)
    /\ TempBuff \notin storage

\* the places of a command in a sequence of commands
placesOf(cs, c) == {j \in 1 .. Len(cs) : cs[j] = c}

\* C15: in ComparedFile::close the markers of the buffer are cleared before
\* the close command goes to the host; the storage of a temp file is deleted
\* after the close command and not before; for a file that is not a temp file
\* no storage is deleted.  For every file of the registry: the order of the
\* commands, and what they leave of an open file (the buffer closed, the
\* markers of every other buffer as they were, the storage of a temp file
\* gone)
CloseOrdering ==
    \A i \in 1 .. Len(compareList), k \in 1 .. 2 :
        LET f == compareList[i].file[k]
            cs == closeCommands(f)
            h2 == fileClose(Host, f)
        IN  /\ Cardinality(placesOf(cs, "IDM_FILE_CLOSE")) = 1
            /\ placesOf(cs, "clearWindow") # {}
            /\ \A c \in placesOf(cs, "clearWindow"), x \in placesOf(cs, "IDM_FILE_CLOSE") :
                  c < x
            /\ f.isTemp # NO_TEMP =>
                  /\ Cardinality(placesOf(cs, "DeleteFile")) = 1
                  /\ \A d \in placesOf(cs, "DeleteFile"),
                        x \in placesOf(cs, "IDM_FILE_CLOSE") : x < d
            /\ f.isTemp = NO_TEMP => placesOf(cs, "DeleteFile") = {}
            /\ hIsOpen(Host, f.buffId) =>
                  /\ ~hIsOpen(h2, f.buffId)
                  /\ \A b \in AllBuffers \ {f.buffId} : h2.marks[b] = marks[b]
                  /\ f.isTemp # NO_TEMP => f.buffId \notin h2.storage
                  /\ f.isTemp = NO_TEMP => h2.storage = storage

\* the two files of a pair have been closed because the user accepted to
\* close them after a match
PairClosedOnMatch ==
    /\ ended.result = MATCH /\ ended.accepted
    /\ \A k \in 1 .. 2 : ~hIsOpen(Host, ended.pair[1].file[k].buffId)

\* ------------------------------------- the session that restores tab places
\* four files are open in the main view; two of them, a and b, have been
\* compared from the file cur, so that positionFiles has moved one of them to
\* the sub view
InitRestore ==
    /\ InitPlugin
    /\ sessionOps = PairSetupOps
    /\ Settings = DefaultSettings
    /\ \E a \in AllBuffers, b \in AllBuffers, aIsNew \in BOOLEAN, cur \in AllBuffers :
          LET h0 == [tabs |-> [v \in Views |-> IF v = MAIN_VIEW THEN <<1, 2, 3, 4>>
                                               ELSE <<>>],
                     active |-> [v \in Views |-> IF v = MAIN_VIEW THEN cur ELSE None],
                     focus |-> MAIN_VIEW,
                     marks |-> [x \in AllBuffers |-> <<{}>>],
                     storage |-> {}]
              pair0 == [file |-> <<ComparedFileOf(a, MAIN_VIEW, a - 1, aIsNew),
                                   ComparedFileOf(b, MAIN_VIEW, b - 1, ~aIsNew)>>,
                        relativePos |-> 0,
                        positioned |-> FALSE,
                        isFullCompare |-> TRUE,
                        compared |-> TRUE,
                        alignmentInfo |-> <<>>]
              placed == positionFiles(h0, pair0)
          IN  /\ a # b /\ cur \in {a, b}
              /\ tabs = placed.h.tabs
              /\ active = placed.h.active
              /\ focus = placed.h.focus
              /\ marks = placed.h.marks
              /\ compareList = <<[placed.pair EXCEPT !.positioned = TRUE]>>
    /\ compareMode = TRUE

\* the file of the pair that is in its original view and is not moved back
\* (the anchor), and the file that is
anchorOf(pair) == pair.file[biasIdx(Host, pair)]
movedOf(pair) == pair.file[3 - biasIdx(Host, pair)]

\* the user shows and closes a buffer that is in no pair and stands before
\* both files of the pair (the tabs were opened in the order of their ids);
\* the host announces the close and the buffer it shows then
CloseUnrelated ==
    \E b \in AllBuffers :
        LET shown == notifyBufferActivated([State EXCEPT !.h = hActivate(@, b)], b)
            announced == notifyFileBeforeClose(shown, b)
            closed == [announced EXCEPT !.h = hCloseCurrent(@)]
        IN  /\ pc = "idle"
            /\ compareList # <<>>
            /\ hIsOpen(Host, b)
            /\ getCompare(compareList, b) = 0
            /\ hViewOf(Host, b) = hViewOf(Host, anchorOf(compareList[1]).buffId)
            /\ hPos(Host, b) < hPos(Host, anchorOf(compareList[1]).buffId)
            /\ b < movedOf(compareList[1]).buffId
            /\ Commanded(notifyBufferActivated(closed, hCurrent(closed.h)))

NextRestore ==
    \/ CloseUnrelated
    \/ HostActivate
    \/ ActivateFire
    \/ MenuClearActive
    \/ MenuClearAll

SpecRestore == InitRestore /\ [][NextRestore]_vars

\* C16: for a pair whose files come from the same view, when buffers that are
\* in no pair and stand before the anchor file (and before the moved file)
\* have been closed while the pair was compared, the restore of the files puts the moved file back so
\* that its tab index minus the tab index of the anchor is the relative
\* offset that was recorded when the pair was positioned
RelativePositionPreserved ==
    [][(/\ compareList # <<>>
        /\ compareList' = <<>>
        /\ compareList[1].relativePos # 0)
       => hPos(Host', movedOf(compareList[1]).buffId)
             - hPos(Host', anchorOf(compareList[1]).buffId)
          = compareList[1].relativePos]_vars

\* ------------------------------------------------------------ the alignment
\* the lines that can carry an annotation (rows of padding shown under the
\* line) that pads a line of the document: the lines before the last one
AnnLines == 0 .. (MaxAlignLine - 1)

\* the line of an alignment record on a view, and its diff mask
lineOf(rec, view) == IF view = MAIN_VIEW THEN rec.main.line ELSE rec.sub.line
maskOf(rec, view) == IF view = MAIN_VIEW THEN rec.main.diffMask ELSE rec.sub.diffMask

\* the rows of padding above a line: the annotations of the lines before it
RECURSIVE annRows(_, _)
annRows(a, k) == IF k < 0 THEN 0 ELSE a[k] + annRows(a, k - 1)

\* SCI_VISIBLEFROMDOCLINE with all folds expanded: the row a line is shown at
visibleFromDocLine(ann, view, line) == line + annRows(ann[view], line - 1)

\* addBlankSection: length rows of padding are shown above the line, as the
\* annotation of the line before it; the first line has no line before it
addBlankSection(ann, view, line, length) ==
    IF line = 0 THEN ann ELSE [ann EXCEPT ![view][line - 1] = length]

\* alignDiffs: a stale annotation of the line before the record's line is
\* removed
clearAnnotation(ann, view, line) ==
    IF line # 0 /\ ann[view][line - 1] # 0 THEN [ann EXCEPT ![view][line - 1] = 0]
    ELSE ann

\* alignDiffs: mismatchLen of a record
mismatchLenOf(ann, rec) ==
    visibleFromDocLine(ann, MAIN_VIEW, rec.main.line)
        - visibleFromDocLine(ann, SUB_VIEW, rec.sub.line)

\* alignDiffs without the test of the next record
sharesNextNever(info, i, view) == FALSE

\* alignDiffs: the next record has the same line on the view
sharesNext(info, i, view) ==
    i + 1 <= Len(info) /\ lineOf(info[i], view) = lineOf(info[i + 1], view)

\* alignDiffs: the body of the loop for record i; c holds the annotations of
\* the two views and the calls of addBlankSection made so far
alignRecord(info, c, i) ==
    LET cleared == clearAnnotation(clearAnnotation(c.ann, MAIN_VIEW, info[i].main.line),
                                   SUB_VIEW, info[i].sub.line)
        mismatchLen == mismatchLenOf(cleared, info[i])
        side == IF mismatchLen > 0 THEN SUB_VIEW ELSE MAIN_VIEW
        length == IF mismatchLen > 0 THEN mismatchLen ELSE 0 - mismatchLen
    IN  IF mismatchLen = 0 \/ sharesNext(info, i, side)
        THEN [ann |-> cleared, calls |-> c.calls]
        ELSE [ann |-> addBlankSection(cleared, side, lineOf(info[i], side), length),
              calls |-> Append(c.calls, [view |-> side, line |-> lineOf(info[i], side),
                                         length |-> length, record |-> i])]

\* alignDiffs: the loop from record i on, over documents that end at endLine
RECURSIVE alignFrom(_, _, _, _)
alignFrom(info, c, i, endLine) ==
    IF i > Len(info) \/ info[i].main.line > endLine \/ info[i].sub.line > endLine
    THEN c
    ELSE alignFrom(info, alignRecord(info, c, i), i + 1, endLine)

\* alignDiffs
alignDiffs(info, ann, endLine) == alignFrom(info, [ann |-> ann, calls |-> <<>>], 1, endLine)

\* isAlignmentNeeded: the loop from record i on; firstLine and lastLine are
\* the document lines of the first row of the view and of the row one screen
\* below it
RECURSIVE alignmentNeededFrom(_, _, _, _, _, _)
alignmentNeededFrom(info, ann, view, firstLine, lastLine, i) ==
    IF i > Len(info) THEN FALSE
    ELSE IF /\ lineOf(info[i], view) >= firstLine
            /\ info[i].main.diffMask = info[i].sub.diffMask
            /\ visibleFromDocLine(ann, MAIN_VIEW, info[i].main.line)
                  # visibleFromDocLine(ann, SUB_VIEW, info[i].sub.line)
    THEN TRUE
    ELSE IF lineOf(info[i], view) > lastLine THEN FALSE
    ELSE alignmentNeededFrom(info, ann, view, firstLine, lastLine, i + 1)

\* isAlignmentNeeded
isAlignmentNeeded(info, ann, view, firstLine, lastLine) ==
    alignmentNeededFrom(info, ann, view, firstLine, lastLine, 1)

\* the alignment records over the lines of the two documents
AlignLines == 0 .. MaxAlignLine
DiffMasks == {MARKER_MASK_ALL, {}}
AlignRecords ==
    [main : [line : AlignLines, diffMask : {MARKER_MASK_ALL}],
     sub : [line : AlignLines, diffMask : DiffMasks]]

\* the lines of an alignment lie within both documents
withinBuffers(info, endLine) ==
    \A i \in 1 .. Len(info) : info[i].main.line <= endLine /\ info[i].sub.line <= endLine

\* an alignment is non-decreasing in the lines of both views
nonDecreasing(info) ==
    \A i \in 1 .. Len(info) - 1 :
        /\ info[i].main.line <= info[i + 1].main.line
        /\ info[i].sub.line <= info[i + 1].sub.line

\* a compare has left an alignment, an earlier alignment has left padding in
\* the two views, and the two documents end at line endLine
InitAlign ==
    /\ InitIdle
    /\ tickCount = 0
    /\ sessionOps = 0
    /\ Settings = DefaultSettings
    /\ tabs = [v \in Views |-> IF v = MAIN_VIEW THEN <<1>> ELSE <<2>>]
    /\ active = [v \in Views |-> IF v = MAIN_VIEW THEN 1 ELSE 2]
    /\ focus = MAIN_VIEW
    /\ marks = [b \in AllBuffers |->
                   IF b \in {1, 2} THEN [l \in 1 .. MaxAlignLine + 1 |-> {}] ELSE <<>>]
    /\ compareList = <<>>
    /\ compareMode = FALSE
    /\ \E n \in 1 .. MaxRecords, endLine \in {MaxAlignLine - 1, MaxAlignLine} :
          \E info \in [1 .. n -> AlignRecords], ann \in [Views -> [AnnLines -> 0 .. MaxStalePad]] :
              /\ nonDecreasing(info)
              /\ \A v \in Views, l \in AnnLines : l >= endLine => ann[v][l] = 0
              /\ alignCase = [stage |-> "input", info |-> info, ann |-> ann,
                              endLine |-> endLine, calls |-> <<>>, asked |-> <<>>]

\* the rest of the program is left alone
AlignOnly ==
    UNCHANGED <<tabs, active, focus, marks, tickCount, undoHistory, storage, Settings,
                compareList, newCompare, compareMode, notificationsLock,
                deletedSections, delayedAlignment, delayedActivation, delayedClosure,
                delayedUpdate, storedLocation, goToFirst, pc, cmp, probe, replScen,
                skipScen, burst, sessionOps, ended, notified, minimized,
                delayedMaximize>>

\* alignDiffs is applied to the alignment
AlignDiffs ==
    /\ alignCase.stage = "input"
    /\ LET c == alignDiffs(alignCase.info, alignCase.ann, alignCase.endLine)
       IN  alignCase' = [alignCase EXCEPT !.stage = "aligned", !.ann = c.ann,
                                          !.calls = c.calls]
    /\ AlignOnly

\* isAlignmentNeeded is asked for a view that shows the lines from firstLine
\* to lastLine
AskAlignmentNeeded ==
    \E view \in Views, firstLine \in AlignLines, lastLine \in AlignLines :
        /\ alignCase.stage \in {"input", "aligned"}
        /\ alignCase.asked = <<>>
        /\ firstLine <= lastLine
        /\ alignCase' =
              [alignCase EXCEPT !.asked =
                  <<[view |-> view, firstLine |-> firstLine, lastLine |-> lastLine,
                     needed |-> isAlignmentNeeded(alignCase.info, alignCase.ann, view,
                                                  firstLine, lastLine)]>>]
        /\ AlignOnly

NextAlign ==
    \/ AlignDiffs
    \/ AskAlignmentNeeded

SpecAlign == InitAlign /\ [][NextAlign]_vars

\* C17: over an alignment that is non-decreasing in both lines alignDiffs adds
\* padding on a view at a line at most once, and only at a record that is the
\* last of the records that share that line on the view
PaddingNotDuplicated ==
    alignCase.stage = "aligned" =>
        /\ \A j \in 1 .. Len(alignCase.calls) :
              ~sharesNext(alignCase.info, alignCase.calls[j].record,
                          alignCase.calls[j].view)
        /\ \A j \in 1 .. Len(alignCase.calls), k \in 1 .. Len(alignCase.calls) :
              (j # k /\ alignCase.calls[j].view = alignCase.calls[k].view)
                 => alignCase.calls[j].line # alignCase.calls[k].line

\* alignDiffs has run over an alignment in which two records in a row share a
\* line on a view, and has added padding on that view at that line
RunPadded ==
    /\ alignCase.stage = "aligned"
    /\ \E j \in 1 .. Len(alignCase.calls) :
          LET c == alignCase.calls[j]
          IN  /\ c.record > 1
              /\ lineOf(alignCase.info[c.record - 1], c.view) = c.line
              /\ c.line # 0

misalignedInRange(info, ann, view, firstLine, lastLine) ==
    \E i \in 1 .. Len(info) :
        /\ lineOf(info[i], view) >= firstLine
        /\ lineOf(info[i], view) <= lastLine
        /\ info[i].main.diffMask = info[i].sub.diffMask
        /\ visibleFromDocLine(ann, MAIN_VIEW, info[i].main.line)
              # visibleFromDocLine(ann, SUB_VIEW, info[i].sub.line)

\* C19: the answer of isAlignmentNeeded for a view depends only on the
\* records whose line on the view is within the lines the view shows, from
\* its first row to the row one screen below: it is true if and only if one
\* of these records has the same diff mask on both sides and is shown at
\* different rows in the two views
AlignmentNeededInViewport ==
    \A j \in 1 .. Len(alignCase.asked) :
        alignCase.asked[j].needed
            <=> misalignedInRange(alignCase.info, alignCase.ann, alignCase.asked[j].view,
                                  alignCase.asked[j].firstLine,
                                  alignCase.asked[j].lastLine)

\* ------------------------------------------------------ the guard counter
\* the commands and the notifications of a session in which notifications
\* come in while compare() is running
NextLocked ==
    \/ MenuSetAsFirst
    \/ MenuCompare
    \/ CompareSelection
    \/ CompareEncoding
    \/ CompareDiff
    \/ MenuClearActive
    \/ HostActivate
    \/ HostClose
    \/ HostSave
    \/ Paint
    \/ AlignFire
    \/ ActivateFire
    \/ CloseFire
    \/ UpdateFire
    \/ NotifyLocked

SpecLocked == Init /\ [][NextLocked]_vars

\* the pending state of the four delayed-action slots
slotsPending ==
    <<delayedAlignment, delayedActivation.pending, delayedClosure.pending,
      delayedUpdate.pending>>

SIZE_RESTORED == "SIZE_RESTORED"
SIZE_MINIMIZED == "SIZE_MINIMIZED"
SIZE_MAXIMIZED == "SIZE_MAXIMIZED"
SizeParams == {SIZE_RESTORED, SIZE_MINIMIZED, SIZE_MAXIMIZED}

\* messageProc, WM_SIZE: a minimize with the guard counter at zero cancels the
\* alignment and takes the counter
messageProc(st, wParam) ==
    IF wParam = SIZE_MINIMIZED /\ st.lock = 0
    THEN [st EXCEPT !.align = FALSE, !.lock = @ + 1]
    ELSE st

\* messageProc, WM_SIZE: a maximize with the guard counter taken posts the
\* delayed restore action
maximizePosted(st, wParam) ==
    ~(wParam = SIZE_MINIMIZED /\ st.lock = 0) /\ wParam = SIZE_MAXIMIZED /\ st.lock # 0

\* DelayedMaximize::operator(): the guard counter is given back if it is taken
delayedMaximizeFire(st) == IF st.lock # 0 THEN lockDec(st) ELSE st

\* a step of messageProc or of the delayed restore action: the commands, the
\* ghosts and the rest of the host are left alone
WindowStep(st) ==
    /\ Step(st)
    /\ HistoryGhostsUnchanged
    /\ UNCHANGED <<tickCount, Settings, burst, sessionOps, ended, notified, alignCase>>

\* the host window is minimized, or a minimized window is shown again (at its
\* former size or maximized), or a window that is shown changes its size; the
\* host passes WM_SIZE on, also while compare() waits for an answer
Resize ==
    \E wParam \in SizeParams :
        /\ minimized <=> wParam # SIZE_MINIMIZED
        /\ minimized' = (wParam = SIZE_MINIMIZED)
        /\ delayedMaximize' = (delayedMaximize \/ maximizePosted(State, wParam))
        /\ WindowStep(messageProc(State, wParam))

\* the timer of the delayed restore action fires, also while compare() waits
\* for an answer
MaximizeFire ==
    /\ delayedMaximize
    /\ notificationsLock + MaxWrap > 0
    /\ delayedMaximize' = FALSE
    /\ UNCHANGED minimized
    /\ WindowStep(delayedMaximizeFire(State))

\* a session of compares in which the window is minimized and shown again
NextWindow ==
    \/ Resize
    \/ MaximizeFire
    \/ MenuCompare
    \/ CompareSelection
    \/ CompareEncoding
    \/ CompareDiff
    \/ HostActivate
    \/ ActivateFire
    \/ Paint
    \/ AlignFire

SpecWindow == Init /\ [][NextWindow]_vars

\* C21: whenever the window is minimized the guard counter is not zero,
\* however minimize, restore and the firing of the delayed restore action
\* follow one another
MinimizedIsLocked == minimized => notificationsLock # 0

\* C22: the guard counter is balanced: it is never taken below zero (a value
\* below zero stands for the value the unsigned counter wraps to), a handler
\* that has run to its end leaves it as it found it, and once the delayed
\* restore action has fired after a minimize and a restore, the counter is
\* zero when no handler is running
GuardBalanced ==
    /\ [](notificationsLock >= 0)
    /\ [][(pc = "idle" /\ pc' = "idle" /\ minimized' = minimized
              /\ delayedMaximize' = delayedMaximize)
          => notificationsLock' = notificationsLock]_vars
    /\ [][(delayedMaximize /\ ~delayedMaximize' /\ ~minimized /\ pc = "idle")
          => notificationsLock' = 0]_vars

\* ------------------------------------------------------ the marker history
\* a compared pair, every line of the new file changed, is edited while the
\* tick count of the host wraps to zero
InitStack ==
    /\ InitIdle
    /\ alignCase = NoAlignCase
    /\ tickCount = 0 - TickStep
    /\ sessionOps = PairSetupOps
    /\ Settings = DefaultSettings
    /\ tabs = [v \in Views |-> IF v = MAIN_VIEW THEN <<1>> ELSE <<2>>]
    /\ active = [v \in Views |-> IF v = MAIN_VIEW THEN 1 ELSE 2]
    /\ focus = SUB_VIEW
    /\ marks = [b \in AllBuffers |->
                   IF b = 2 THEN [l \in 1 .. InitLines |-> MARKER_MASK_ALL]
                   ELSE IF b = 1 THEN [l \in 1 .. InitLines |-> {}]
                   ELSE <<>>]
    /\ compareList = <<EstablishedPair>>
    /\ compareMode = TRUE

\* time passes until the tick count has wrapped
TickWrap == tickCount < 0 /\ Tick

NextStack ==
    \/ UserDeleteText
    \/ UserInsertText
    \/ TickWrap

SpecStack == InitStack /\ [][NextStack]_vars

\* the history of the current document, its markers and the top record
currentHistory == deletedSections[getCurrentBuffId]
currentMarks == marks[getCurrentBuffId]
topSection(h) == h.sections[Len(h.sections)]

\* the arguments of a call of push or pop
CallLines == 0 .. MaxLines

\* the pop is a full match: the top record has the restore action and the
\* start line of the call
fullMatch(h, currAction, startLine) ==
    /\ h.sections # <<>>
    /\ topSection(h).restoreAction = currAction
    /\ topSection(h).startLine = startLine

\* the records below the top one
belowTop(h) == SubSeq(h.sections, 1, Len(h.sections) - 1)

\* C23: a record is replayed by its counter-action only: a record made for a
\* delete caused by an undo has the restore action REDO and every other
\* record UNDO; pop removes the top record, and puts its saved markers on the
\* lines, only when the action of the call is the restore action of the
\* record and the start line of the call is its start line; push removes no
\* record
ReplayedByCounterAction ==
    LET h == currentHistory
        m == currentMarks
    IN  /\ \A a \in Actions, s \in CallLines, e \in CallLines :
              LET r == push(h, m, a, s, e, tickCount)
              IN  /\ Len(r.h.sections) >= Len(h.sections)
                  /\ SubSeq(r.h.sections, 1, Len(h.sections)) = h.sections
                  /\ Len(r.h.sections) > Len(h.sections)
                        => /\ Len(r.h.sections) = Len(h.sections) + 1
                           /\ topSection(r.h).restoreAction =
                                 (IF a = SC_PERFORMED_UNDO THEN SC_PERFORMED_REDO
                                  ELSE SC_PERFORMED_UNDO)
        /\ \A a \in Actions, s \in CallLines :
              LET r == pop(h, m, a, s, tickCount)
              IN  /\ Len(r.h.sections) >= Len(h.sections) - 1
                  /\ Len(r.h.sections) = Len(h.sections)
                        => /\ r.m = m
                           /\ belowTop(r.h) = belowTop(h)
                  /\ Len(r.h.sections) < Len(h.sections)
                        => /\ fullMatch(h, a, s)
                           /\ r.h.sections = belowTop(h)
                           /\ \A i \in 1 .. Len(topSection(h).markers) :
                                 s + i <= Len(m)
                                    => r.m[s + i] \cap MARKER_MASK_ALL
                                          = topSection(h).markers[i]

\* a multi-line delete has been undone, and the pop of the undo has taken the
\* record of the delete off the history
RecordReplayed ==
    /\ probe.stage = "undone"
    /\ currentHistory.sections = <<>>
    /\ currentHistory.skipPush = 0

\* C24: a push with endLine <= startLine changes nothing, not the skip
\* counter, not the history and not the markers, also when the skip counter
\* is positive; a push with endLine > startLine and a positive skip counter
\* takes one from the counter, adds no record and changes no marker
PushGuards ==
    LET h == currentHistory
        m == currentMarks
    IN  \A a \in Actions, s \in CallLines, e \in CallLines :
            LET r == push(h, m, a, s, e, tickCount)
            IN  /\ e <= s => (r.h = h /\ r.m = m)
                /\ (e > s /\ h.skipPush > 0)
                      => /\ r.h = [h EXCEPT !.skipPush = @ - 1]
                         /\ r.m = m

\* an insert with no tracked delete before it has raised the skip counter,
\* and the push of the multi-line delete that followed has taken it back
SkipConsumed ==
    /\ skipScen.stage = "deleted"
    /\ currentHistory.skipPush = 0
    /\ currentHistory.sections = <<>>

\* C25: a pop that is no full match changes neither the length of the history
\* nor a marker: on an empty history it adds one to the skip counter; when
\* the restore action of the top record is not the action of the call it
\* flags the record as a line replace (the skip counter unchanged) if it
\* comes less than 40 ms after the last push, and adds one to the skip
\* counter otherwise; when the action is the same and the start line is not,
\* it changes nothing
PopMismatch ==
    LET h == currentHistory
        m == currentMarks
        skipped == [h EXCEPT !.skipPush = @ + 1]
    IN  \A a \in Actions, s \in CallLines :
            LET r == pop(h, m, a, s, tickCount)
            IN  ~fullMatch(h, a, s)
                   => /\ Len(r.h.sections) = Len(h.sections)
                      /\ r.m = m
                      /\ h.sections = <<>> => r.h = skipped
                      /\ (h.sections # <<>> /\ topSection(h).restoreAction # a)
                            => IF tickCount - h.lastPushTimeMark < ReplaceWindow
                               THEN r.h = [h EXCEPT
                                             !.sections[Len(h.sections)].lineReplace = TRUE]
                               ELSE r.h = skipped
                      /\ (h.sections # <<>> /\ topSection(h).restoreAction = a)
                            => r.h = h

\* ------------------------------------------------- the history and re-compare
\* a compared pair whose files are edited and which is compared again
NextRecompare ==
    \/ UserDeleteText
    \/ UserInsertText
    \/ MenuCompare
    \/ CompareSelection
    \/ CompareEncoding
    \/ CompareDiff

SpecRecompare == InitHistory /\ [][NextRecompare]_vars

\* the sections clear(section) may be called with
ClearSections == [off : 0 .. MaxLines, len : 0 .. MaxLines]

\* the history of a buffer is wiped
historyReset(ds, b) == ds[b].sections = <<>> /\ ds[b].skipPush = 0

\* the files of the pairs of the registry
RegistryFiles == {compareList[i].file[k] : i \in 1 .. Len(compareList), k \in 1 .. 2}

\* C26: after ComparedFile.clear() or clear(range) the file's history stack is
\* empty and its skipPush counter is 0, and so it is for both files of an
\* existing pair once compare() has cleared them to compare them again
ClearResetsHistory ==
    /\ \A f \in RegistryFiles :
          /\ historyReset(fileClear(State, f).ds, f.buffId)
          /\ \A section \in ClearSections :
                historyReset(fileClearSection(State, f, section).ds, f.buffId)
    /\ (pc = "diff" /\ cmp.recompare) =>
          \A k \in 1 .. 2 :
              historyReset(deletedSections, compareList[cmp.idx].file[k].buffId)

\* the pair is compared again after an insert without a record has raised
\* skipPush
RecomparedAfterSkip ==
    /\ pc = "diff"
    /\ cmp.recompare
    /\ skipScen.stage = "inserted"
    /\ historyReset(deletedSections, getCurrentBuffId)

\* --------------------------------------------------- the activation debounce
\* the buffers of the host that are open
OpenBuffers == {b \in AllBuffers : hIsOpen(Host, b)}

\* the activation slot is armed for the buffer and for no other one
armedFor(st, b) == st.activation.pending /\ st.activation.buffId = b

\* the delayed activate action has acted for the buffer of the slot: compare
\* mode is on and the other file of the pair is in the pane opposite to the
\* one that has the focus
activatedPair(st0, st) ==
    LET buffId == st0.activation.buffId
        otherFile == getOtherFileByBuffId(st0.list[getCompare(st0.list, buffId)], buffId)
    IN  /\ st.mode
        /\ hDocId(st.h, hOther(st.h.focus)) = otherFile.sciDoc

\* C27: a buffer-activated notification cancels the activation that is pending
\* and arms the slot for its own buffer when that buffer is in a pair, so that
\* a burst leaves one activation, of its last buffer; the delayed activate
\* action leaves the slot idle, does nothing when the buffer is in no pair of
\* the registry, and otherwise turns compare mode on with the other buffer of
\* the pair shown in the opposite pane
ActivationDebounced ==
    /\ \A b \in OpenBuffers :
          LET st == onBufferActivated(State, b)
          IN  /\ st.activation.pending <=> getCompare(compareList, b) # 0
              /\ st.activation.pending => armedFor(st, b)
    /\ ~(delayedActivation.pending /\ delayedClosure.pending)
    /\ (pc = "idle" /\ delayedActivation.pending) =>
          LET st == delayedActivateFire(State)
          IN  /\ ~st.activation.pending
              /\ IF getCompare(compareList, delayedActivation.buffId) = 0
                 THEN st = [State EXCEPT !.activation.pending = FALSE]
                 ELSE activatedPair(State, st)

\* ----------------------------------------------------------- the batched close
\* the buffers in the queue of the close slot
QueuedBuffers == Range(delayedClosure.closedBuffs)

\* the pairs of the registry that hold a queued buffer
QueuedPairs ==
    {i \in 1 .. Len(compareList) :
        {compareList[i].file[1].buffId, compareList[i].file[2].buffId}
            \cap QueuedBuffers # {}}

\* the registry without its pairs of the set, in its order
RECURSIVE pairsKept(_, _, _)
pairsKept(list, gone, i) ==
    IF i > Len(list) THEN <<>>
    ELSE IF i \in gone THEN pairsKept(list, gone, i + 1)
    ELSE <<list[i]>> \o pairsKept(list, gone, i + 1)

closeFired ==
    /\ pc = "idle"
    /\ delayedClosure.pending
    /\ delayedClosure' = [pending |-> FALSE, closedBuffs |-> <<>>]

\* compare() has gone on from the answer it waited for
compareStepped ==
    /\ pc # "idle"
    /\ pc' \in {"idle", "selection", "encoding", "diff"} \ {pc}

\* a close timer that is pending fires, and a compare() that runs comes to
\* its return
TimersFire ==
    /\ WF_delayedClosure(closeFired)
    /\ WF_pc(compareStepped)

SpecLive == Init /\ [][Next]_vars /\ TimersFire

\* the buffer is in the queue of the close slot and in a pair of the registry
queuedInPair(b) == b \in QueuedBuffers /\ getCompare(compareList, b) # 0

justQueued(b) ==
    /\ Len(delayedClosure'.closedBuffs) = Len(delayedClosure.closedBuffs) + 1
    /\ delayedClosure'.closedBuffs[Len(delayedClosure'.closedBuffs)] = b

\* the index (1 or 2) in its pair of the file that is not of the buffer
otherIdx(pair, buffId) == IF pair.file[1].buffId = buffId THEN 2 ELSE 1

\* the home index the claim gives to the other file when the buffer is closed
\* at tab index p in a pair of offset r
homeIndexAfter(p, r) ==
    IF r > 0 THEN Max(0, p + r - 1) ELSE Max(0, p + r + 1)

\* C30: when a before-close notification is handled for a buffer that is in
\* its home view and whose pair has an offset r that is not 0, the home index
\* of the other file becomes max(0, p + r - 1) for r > 0 and max(0, p + r + 1)
\* for r < 0, p being the tab index of the closing buffer; otherwise the home
\* index of the other file is unchanged; the home index is never negative
HomeIndexOnClose ==
    [][\A b \in AllBuffers :
          justQueued(b) =>
              LET idx == getCompare(compareList, b)
                  pair == compareList[idx]
                  k == otherIdx(pair, b)
              IN  /\ compareList'[idx].file[k].originalPos =
                        IF /\ pair.relativePos # 0
                           /\ getFileByBuffId(pair, b).originalViewId = hViewOf(Host, b)
                        THEN homeIndexAfter(hPos(Host, b), pair.relativePos)
                        ELSE pair.file[k].originalPos
                  /\ compareList'[idx].file[k].originalPos >= 0
                  /\ compareList'[idx].file[3 - k].originalPos
                        = pair.file[3 - k].originalPos]_vars

\* the file of a pair that stayed in its home view has been closed, the offset
\* of the pair is not 0 and the close is in the queue
HomeFileClosed ==
    \E b \in QueuedBuffers :
        LET idx == getCompare(compareList, b)
        IN  /\ idx # 0
            /\ ~hIsOpen(Host, b)
            /\ compareList[idx].relativePos # 0
            /\ getFileByBuffId(compareList[idx], b).originalViewId
                  = getFileByBuffId(compareList[idx], b).compareViewId

\* ------------------------------------------------------------- the restore
\* the places of the command in a sequence of commands
placesOfCommand(cs, c) == {i \in 1 .. Len(cs) : cs[i] = c}

\* the host after restore() has activated the buffer, cleared its window and
\* asked for the move to the other view
landed(h, f) == hMoveToOtherView(hActivateAndClear(h, f.buffId))

\* C31: restore() closes a temp buffer and never moves it; it gives no move
\* command for a buffer that is in its home view; otherwise it gives one
\* move-to-other-view command, followed by max(0, currentIndex - homeIndex)
\* move-backward commands and nothing else, so that a buffer that landed after
\* its home index ends at its home index and one that landed at or before it
\* stays where it landed
RestoreRepositions ==
    pc = "idle" =>
        \A f \in RegistryFiles :
            LET cs == restoreCommands(Host, f)
                h2 == fileRestore(Host, f)
                gotos == placesOfCommand(cs, "IDM_VIEW_GOTO_ANOTHER_VIEW")
                backs == placesOfCommand(cs, "IDM_VIEW_TAB_MOVEBACKWARD")
                cur == hPos(landed(Host, f), f.buffId)
            IN  /\ h2 = hCommands(Host, f, cs)
                /\ IF f.isTemp # NO_TEMP
                   THEN /\ gotos = {} /\ backs = {}
                        /\ ~hIsOpen(h2, f.buffId)
                   ELSE IF hViewOf(Host, f.buffId) = f.originalViewId
                   THEN /\ gotos = {} /\ backs = {}
                        /\ h2.tabs = Host.tabs
                   ELSE /\ Cardinality(gotos) = 1
                        /\ Cardinality(backs) = Max(0, cur - f.originalPos)
                        /\ \A i \in gotos : backs = (i + 1) .. Len(cs)
                        /\ hIsOpen(Host, f.buffId) =>
                              hPos(h2, f.buffId) =
                                  IF cur > f.originalPos THEN f.originalPos ELSE cur

\* a file of a pair is out of its home view and the move to the other view
\* lands it after its home index
LandsAfterHome ==
    /\ pc = "idle"
    /\ \E f \in RegistryFiles :
          /\ f.isTemp = NO_TEMP
          /\ hIsOpen(Host, f.buffId)
          /\ hViewOf(Host, f.buffId) # f.originalViewId
          /\ hPos(landed(Host, f), f.buffId) > f.originalPos

\* ------------------------------------------------------- the clear of all
\* no line of the buffer carries a compare marker in the host
markersClearedIn(h, b) ==
    \A l \in 1 .. Len(h.marks[b]) : h.marks[b][l] \cap MARKER_MASK_ALL = {}

\* C32: after ClearAllCompares, as a command and on the before-shutdown
\* notification, the registry is empty, no first file is designated, compare
\* mode is off, every buffer of the former pairs that is no temp file is still
\* open with its markers cleared, and every temp buffer of the former pairs is
\* closed with its storage deleted
AllCleared ==
    pc = "idle" =>
        LET st == ClearAllCompares(State)
        IN  /\ st.list = <<>>
            /\ st.nc = <<>>
            /\ ~st.mode
            /\ \A f \in RegistryFiles :
                  IF f.isTemp = NO_TEMP
                  THEN hIsOpen(Host, f.buffId) =>
                          /\ hIsOpen(st.h, f.buffId)
                          /\ markersClearedIn(st.h, f.buffId)
                  ELSE /\ ~hIsOpen(st.h, f.buffId)
                       /\ f.buffId \notin st.h.storage

\* ------------------------------------------------ the shape of the re-diff
\* the sections of the pane that was edited and of the pane that was not
editedSection == IF focus = MAIN_VIEW THEN requestedSections.main ELSE requestedSections.sub
uneditedSection == IF focus = MAIN_VIEW THEN requestedSections.sub ELSE requestedSections.main

\* the markers of the view's document are cleared over the section, and over
\* nothing else
clearedOver(h, view, sec) ==
    viewMarks(h, view) = clearMarksRange(viewMarks(Host, view), sec.off, sec.len)

\* C33: when the windowed update fires after lines were added or deleted, the
\* sections of the two panes start at the same line, the nearest unmarked line
\* at or before the change line on the unedited pane, and their lengths differ
\* by linesAdded - linesDeleted; when no lines were added or deleted both
\* sections are the single line of changePos; the markers are cleared over
\* those two sections and over nothing else
WindowedShape ==
    (/\ pc = "idle"
     /\ delayedUpdate.pending /\ ~delayedUpdate.fullCompare
     /\ getCurrentBuffId # None)
    => /\ IF delayedUpdate.linesAdded # 0 \/ delayedUpdate.linesDeleted # 0
          THEN /\ editedSection.off = uneditedSection.off
               /\ uneditedSection.off =
                     getPrevUnmarkedLine(uneditedMarks, requestedSections.startLine)
               /\ editedSection.len - uneditedSection.len =
                     delayedUpdate.linesAdded - delayedUpdate.linesDeleted
          ELSE /\ editedSection = [off |-> requestedSections.startLine, len |-> 1]
               /\ uneditedSection = [off |-> requestedSections.startLine, len |-> 1]
       /\ \A view \in Views :
             clearedOver(sectionsCleared(Host, requestedSections), view,
                         IF view = MAIN_VIEW THEN requestedSections.main
                         ELSE requestedSections.sub)

\* ------------------------------------------------- the record of a push
\* C34: a push that creates a record saves the marker bitset of every line
\* from startLine to endLine into the record and clears the markers of every
\* one of these lines, the last line included
PushSavesAndClears ==
    getCurrentBuffId # None =>
        LET h == deletedSections[getCurrentBuffId]
            m == marks[getCurrentBuffId]
        IN  \A currAction \in Actions :
            \A startLine \in 0 .. LineCount(getCurrentBuffId) - 1 :
            \A endLine \in startLine + 1 .. LineCount(getCurrentBuffId) - 1 :
                LET r == push(h, m, currAction, startLine, endLine, tickCount)
                    n == Len(r.h.sections)
                IN  n > Len(h.sections) =>
                        \A line \in startLine .. endLine :
                            /\ r.h.sections[n].markers[line - startLine + 1] =
                                   MarkerGet(m, line) \cap MARKER_MASK_ALL
                            /\ MarkerGet(r.m, line) \cap MARKER_MASK_ALL = {}

\* ------------------------------------------------ the liveness of the re-diff
\* what the session notes of its last step: an edit notification the plugin
\* accepted, or a firing of the update action
ModificationAccepted == "SCN_MODIFIED"
UpdateFired == "DelayedUpdate"

\* beNotified hands the SCN_MODIFIED of the current buffer to
\* onSciModifiedUpdate, and the buffer is in a pair of the registry
accepted(st) ==
    /\ modifiedIsHandled(st)
    /\ Settings.UpdateOnChange
    /\ getCompare(st.list, hCurrent(st.h)) # 0

\* an edit at the first line of the current document whose notification is
\* accepted: n lines are deleted or inserted (n = 0: within the line)
RediffEdit ==
    \E kind \in {"del", "ins"}, n \in 0 .. MaxEditLines :
        LET st == applyEdit(State, kind, SC_PERFORMED_USER, 0, n, FALSE, tickCount)
        IN  /\ pc = "idle"
            /\ sessionOps < MaxSessionOps
            /\ accepted(State)
            /\ editFits(State, kind, 0, n)
            /\ countersFit(st) /\ historyFits(st)
            /\ Step(st)
            /\ burst' = burstAfterEdit(State, kind = "ins", 0, n)
            /\ HistoryGhostsUnchanged
            /\ sessionOps' = sessionOps + 1
            /\ ended' = NotEnded
            /\ notified' = ModificationAccepted
            /\ UNCHANGED <<tickCount, Settings, alignCase, minimized, delayedMaximize>>

\* the timer of the update slot fires, and the session notes it
RediffFire ==
    \E result \in CompareResults, pattern \in DiffPatterns, garbage \in Garbage :
        LET st == delayedUpdateFire(State, result, pattern, garbage)
        IN  /\ pc = "idle"
            /\ delayedUpdate.pending
            /\ delayedUpdate.fullCompare => result = MISMATCH /\ pattern = "first"
            /\ result # MISMATCH => pattern = "first"
            /\ ~delayedUpdate.fullCompare => garbage = CHOOSE g \in Garbage : TRUE
            /\ Step(st)
            /\ burst' = burstAfter(st)
            /\ HistoryGhostsUnchanged
            /\ ended' = NotEnded
            /\ notified' = UpdateFired
            /\ UNCHANGED <<tickCount, Settings, sessionOps, alignCase, minimized,
                           delayedMaximize>>

\* the host has opened three files in the main view; nothing is compared, and
\* changes are re-compared as they are made
InitRediff ==
    /\ InitPlugin
    /\ sessionOps = OpenOps
    /\ Settings = [DefaultSettings EXCEPT !.UpdateOnChange = TRUE]
    /\ tabs = [v \in Views |-> IF v = MAIN_VIEW THEN <<1, 2, 3>> ELSE <<>>]
    /\ active = [v \in Views |-> IF v = MAIN_VIEW THEN 1 ELSE None]
    /\ focus = MAIN_VIEW
    /\ marks = [b \in AllBuffers |-> IF b \in Buffers THEN <<{}>> ELSE <<>>]
    /\ compareList = <<>>
    /\ compareMode = FALSE

NextRediff ==
    \/ MenuCompare
    \/ CompareSelection
    \/ CompareEncoding
    \/ CompareDiff
    \/ MenuClearActive
    \/ HostActivate
    \/ HostClose
    \/ HostSave
    \/ RediffEdit
    \/ ActivateFire
    \/ CloseFire
    \/ RediffFire

\* DelayedUpdate::operator() has run
updateFired ==
    /\ pc = "idle"
    /\ delayedUpdate.pending
    /\ notified' = UpdateFired

\* the timers that are pending fire
SpecRediff ==
    InitRediff /\ [][NextRediff]_vars /\ TimersFire /\ WF_notified(updateFired)

\* C35: with update-on-change enabled every accepted insert or delete
\* notification for a buffer of a pair of the registry is followed by a firing
\* of the update action while the pair is still in the registry, given that
\* the timers fire: no saves, closes and edits leave edits that are never
\* re-compared
EditsRediffed ==
    \A b \in AllBuffers :
        (notified = ModificationAccepted /\ getCurrentBuffId = b)
            ~> (notified = UpdateFired \/ getCompare(compareList, b) = 0)

\* ------------------------------------------------ the pane of the re-diff
\* the buffers of the two documents a windowed update compares when it fires
\* now: compareViews reads the documents the two views show
rediffedBuffers == {active[view] : view \in Views}

\* the buffers of the pair of the registry that holds the buffer
pairBuffers(b) ==
    IF getCompare(compareList, b) = 0 THEN {}
    ELSE {compareList[getCompare(compareList, b)].file[i].buffId : i \in 1 .. 2}

\* C36: when the windowed update fires, the pane it takes as the edited pane
\* shows the buffer the edits of the burst were made in and the two documents
\* it compares are those of the pair of this buffer, whatever activations
\* came between the last edit and the firing
EditedPaneRediffed ==
    (/\ pc = "idle"
     /\ delayedUpdate.pending /\ ~delayedUpdate.fullCompare
     /\ burst.open)
    => \A b \in burst.buffs :
          burst.buffs = {b} =>
              /\ active[getCurrentViewId] = b
              /\ rediffedBuffers = pairBuffers(b)

\* ------------------------------------------------ compare mode and the registry
\* C37: after every command and every notification handler that has run to
\* its end compare mode is on only if the registry holds a pair
ModeNeedsPair ==
    pc = "idle" => (compareMode => compareList # <<>>)

\* compare mode is on for the only pair of the registry, and clearing the
\* active compare removes the pair and leaves compare mode off
LastPairCleared ==
    /\ pc = "idle"
    /\ compareMode
    /\ Len(compareList) = 1
    /\ ClearActiveCompare(State).list = <<>>
    /\ ~ClearActiveCompare(State).mode

\* ------------------------------------------------ the pairs of the registry
\* a session in which pairs are made on every path: with the first file set
\* by the user, with the neighbour of the current file, and with a temp file
NextPairs ==
    \/ MenuSetAsFirst
    \/ MenuLastSaveDiff
    \/ MenuCompare
    \/ CompareSelection
    \/ CompareEncoding
    \/ CompareDiff
    \/ MenuClearActive
    \/ HostActivate
    \/ HostMoveToOtherView
    \/ HostClose
    \/ ActivateFire
    \/ CloseFire

SpecPairs == Init /\ [][NextPairs]_vars

\* the two files of the pair are two buffers, one in the NEW role and one in
\* the OLD role
wellFormed(pair) ==
    /\ pair.file[1].buffId # pair.file[2].buffId
    /\ pair.file[1].isNew # pair.file[2].isNew
    /\ getNewFile(pair).isNew /\ ~getOldFile(pair).isNew
    /\ getNewFile(pair).buffId # getOldFile(pair).buffId

\* C38: every pair of the registry is made of two distinct buffers, exactly
\* one of them in the NEW role and the other in the OLD role, whether the
\* first file was set by the user, taken by compare() or paired with a temp
\* file
PairsWellFormed ==
    \A i \in 1 .. Len(compareList) : wellFormed(compareList[i])

\* the registry holds a pair with a temp file and a pair of two files of the
\* user
PairsOfEveryKind ==
    /\ \E i \in 1 .. Len(compareList) : getOldFile(compareList[i]).isTemp # NO_TEMP
    /\ \E i \in 1 .. Len(compareList) :
          /\ compareList[i].file[1].isTemp = NO_TEMP
          /\ compareList[i].file[2].isTemp = NO_TEMP

\* ------------------------------------------------ the offset that is restored
\* the pairs whose relativePos the next step may read in restoreFiles: every
\* pair while no compare() runs (a clear or a close may restore it), and the
\* pair of the current buffer while compare() waits for isEncodingOK
restorable ==
    IF pc = "idle" THEN 1 .. Len(compareList)
    ELSE IF pc = "encoding" THEN {getCompare(compareList, getCurrentBuffId)} \ {0}
    ELSE {}

\* C39: whenever restoreFiles reads the relativePos of a pair, positionFiles
\* has run on the pair and assigned it: no pair is removed through
\* clearComparePair or ClearAllCompares before its relativePos is set
OffsetSetBeforeRestore ==
    \A i \in restorable : compareList[i].positioned

\* ------------------------------------------------ the two uses of SCN_MODIFIED
\* buffers 1 and 2 are compared, buffer 2 is current and buffer 3 is open too;
\* changes are re-compared as they are made, or their markers are kept in the
\* history
InitModified ==
    /\ InitPlugin
    /\ sessionOps = PairSetupOps
    /\ \E updateOnChange \in BOOLEAN :
          Settings = [DefaultSettings EXCEPT !.UpdateOnChange = updateOnChange]
    /\ tabs = [v \in Views |-> IF v = MAIN_VIEW THEN <<1, 3>> ELSE <<2>>]
    /\ active = [v \in Views |-> IF v = MAIN_VIEW THEN 1 ELSE 2]
    /\ focus = SUB_VIEW
    /\ \E m \in [1 .. InitLines -> MarkerValues] :
          marks = [b \in AllBuffers |-> IF b \in {1, 2} THEN m
                                        ELSE IF b = 3 THEN <<{}>> ELSE <<>>]
    /\ compareList = <<EstablishedPair>>
    /\ compareMode = TRUE

SpecModified == InitModified /\ [][NextUpdate]_vars

\* the lines of the current document
currentLines ==
    IF getCurrentBuffId = None THEN {0} ELSE 0 .. Max(0, LineCount(getCurrentBuffId) - 1)

\* what beNotified makes of the SCN_MODIFIED notifications of a deletion from
\* startLine to endLine and of an insertion of n lines at startLine
modifiedResults(currAction, startLine, endLine, n) ==
    {beforeDelete(State, currAction, startLine, endLine, tickCount),
     afterDelete(State, startLine, endLine),
     afterInsert(State, currAction, startLine, n, tickCount)}

\* the notification leaves the marker history of every buffer as it is
historiesKept(st) == st.ds = deletedSections

\* the notification leaves the marker history of every buffer but b as it is
otherHistoriesKept(st, b) ==
    \A other \in AllBuffers \ {b} : st.ds[other] = deletedSections[other]

\* C40: an SCN_MODIFIED notification drives one of two mechanisms, chosen by
\* the setting UpdateOnChange: when it is on the notification may arm the
\* update slot and changes no marker history, when it is off it may push to or
\* pop from the history of the current buffer only and leaves the update slot
\* alone; nothing is done unless compare mode is on, the guard counter is 0
\* and the current buffer is in a pair of the registry
ModifiedMechanism ==
    \A currAction \in Actions, startLine \in currentLines, n \in 0 .. MaxEditLines :
    \A endLine \in {l \in currentLines : l >= startLine} :
    \A st \in modifiedResults(currAction, startLine, endLine, n) :
        /\ Settings.UpdateOnChange => historiesKept(st)
        /\ ~Settings.UpdateOnChange =>
              /\ st.update = delayedUpdate
              /\ otherHistoriesKept(st, getCurrentBuffId)
        /\ ~(/\ compareMode
             /\ notificationsLock = 0
             /\ getCompare(compareList, getCurrentBuffId) # 0) => st = State

\* the notifications of an edit of a buffer of the pair have armed the update
\* slot, and no marker history holds a record or a skip count
ModifiedArmed ==
    /\ pc = "idle"
    /\ Settings.UpdateOnChange
    /\ delayedUpdate.pending /\ ~delayedUpdate.fullCompare
    /\ burst.open
    /\ \A b \in AllBuffers : deletedSections[b] = EmptyHistory

====
